---------------------------- MODULE Spec2Model ----------------------------
(***************************************************************************)
(* A model of chandler's conversation engine (chandler/brain.py), its      *)
(* session manager and memory record (chandler/memory.py) and the          *)
(* background FactExtractionWorker (chandler/memory.py).                    *)
(*                                                                         *)
(* Strings the code parses or formats are sequences of tokens, so that     *)
(* startswith, split and join are computed rather than assumed.            *)
(* datetime.now() is the variable clock: every call reads it and at least  *)
(* one tick passes before the next call; a session id keeps the seconds    *)
(* only (strftime "%Y%m%d_%H%M%S"), a message timestamp keeps every tick.   *)
(***************************************************************************)
EXTENDS Integers, Sequences, FiniteSets, TLC

VARIABLES
    clock,                      \* datetime.now(), in ticks
    current_session_path,       \* Memory._current_session_path is set
    current_session_messages,   \* Memory._current_session_messages
    message_count,              \* Memory._message_count
    tempFile,                   \* temp/current_session.json
    permFiles,                  \* conversations/session_<id>.json, by id
    queue,                      \* FactExtractionWorker.queue
    stop_event,                 \* FactExtractionWorker._stop_event
    workerPc,                   \* position of FactExtractionWorker.run
    workerJob,                  \* the job run() holds (messages)
    lastCall,                   \* history: the operation of the last step
    lastIo,                     \* history: the outcome of its file writes
    snapshotIo,                 \* history: the outcome of the latest write of the temp file
    saved,                      \* history: (role, content) of each auto_save_message since the last start_session
    enqLog,                     \* history: every job put on the queue, in order
    consLog,                    \* history: every job run() took from the queue, in order
    data,                       \* Memory._data: user_profile and facts
    memFile,                    \* memory.json, as the cells written to it
    conversation,               \* Brain.conversation
    current_mode,               \* Brain.current_mode
    mode_history,               \* Brain.mode_history
    session_id,                 \* Brain.session_id
    chatPc,                     \* position of Brain.chat: idle, request (the completion call), tools
    iters,                      \* completion responses chat() has handled in this turn
    final_text,                 \* chat()'s local final_text
    tool_uses,                  \* chat()'s tool_uses not yet executed
    tool_results,               \* chat()'s local tool_results
    mode_switch_announcement,   \* chat()'s local mode_switch_announcement (<<>> for None)
    returned,                   \* history: what the last chat() that returned gave back
    lastResult,                 \* history: what execute_tool returned in the last tool step
    writerPc,                   \* per thread, the position of its remember()/_save() call
    writerBuf,                  \* per thread, the buffer of the file object _save() opened
    wkItems,                    \* the extracted entries the worker has still to remember
    lastClosed,                 \* history: what the _save() that returned last had dumped
    lastExtract,                \* history: what the extraction that finished last came to
    stopSnap,                   \* history: the worker's position when stop() was called
    profileStore,               \* UserProfile._data (user_profile.json), without last_updated
    rememberLog,                \* history: the (key, value) of the remember() calls so far
    lastTool,                   \* history: the tool named in the last tool step, and whether it raised
    lastRequest,                \* history: the completion request built last
    noteLog,                    \* history: every note add_note() was called with, in order
    summaryLog,                 \* history: every summary add_conversation_summary() was called with
    max_summaries,              \* config.memory_settings["max_conversation_summaries"], once read
    crashSaved,                 \* history: the messages saved and not committed when the process stopped
    isEmptyResult,              \* history: what the last user_profile.is_empty() call returned
    summaryLines,               \* history: the lines of the last get_system_prompt_summary()
    is_processing,              \* VoiceController._is_processing
    cancel_transcription,       \* VoiceController._cancel_transcription is set
    current_input_mode,         \* VoiceController._current_input_mode ("none" for None)
    is_listening,               \* WakeWordDetector._is_listening
    wakePc,                     \* position of _handle_wake_event on the recognizer's thread
    voicePc,                    \* per transcription thread, its position in _transcribe_with_timeout
    voiceInput,                 \* per transcription thread, what transcribe_audio returned
    textPc,                     \* position of process_text_input on the menu's thread
    uiState                     \* the state last passed to ui_callback

sessVars == <<current_session_path, current_session_messages, message_count, tempFile>>
workerVars == <<queue, stop_event, workerPc, workerJob>>
brainVars == <<conversation, current_mode, mode_history, session_id, chatPc, iters, final_text,
               tool_uses, tool_results, mode_switch_announcement, returned, lastResult,
               lastRequest>>
raceVars == <<writerPc, writerBuf, wkItems, lastClosed>>
voiceVars == <<is_processing, cancel_transcription, current_input_mode, is_listening, wakePc,
               voicePc, voiceInput, textPc, uiState>>
storeVars == <<noteLog, summaryLog, max_summaries, crashSaved, isEmptyResult, summaryLines,
               voiceVars>>
auxVars == <<lastExtract, stopSnap, profileStore, rememberLog, lastTool, storeVars>>

(* ------------------------------ bounds --------------------------------- *)

\* ticks of the clock a run may use
MaxClock == 7
\* ticks of the clock a run may use where extraction is followed
MaxLongClock == 12
\* ticks per second: two calls less than this many ticks apart may fall in one second
TicksPerSecond == 3
\* messages one session may hold in the model
MaxMsgs == 3
\* messages one session may hold where extraction is followed (two jobs need ten)
MaxLongMsgs == 10
\* completion responses with tool invocations chat() may get in one turn
MaxIters == 1
\* the latest tick at which a chat() has begun, where the tool loop is followed
MaxChatClock == 3
\* remember() calls in a run of the record's own specification
MaxRemembers == 2
\* entries of the lists of the user profile that grow at every call (pets, projects),
\* and notes in the specification of the whole profile
MaxEntries == 1
\* add_note() calls in the specification of the notes list
MaxNotes == 52
\* add_conversation_summary() calls in a run
MaxSummaries == 52

\* transcription threads that may be alive at once
MaxVoiceThreads == 2

(* ---------------------------- constants -------------------------------- *)

\* "Schedule fact extraction every 5 messages"
ExtractEvery == 5
\* Brain.session_id = None; commit_session(session_id=None)
NoId == -1

(* ----------------------------- helpers --------------------------------- *)

\* s[-n:]
LastN(s, n) == IF Len(s) <= n THEN s ELSE SubSeq(s, Len(s) - n + 1, Len(s))

\* datetime.now().strftime("%Y%m%d_%H%M%S"): the seconds of the clock
SessionIdAt(t) == t \div TicksPerSecond

SessionIds == 0 .. (MaxLongClock \div TicksPerSecond)

Roles == {"user", "assistant"}

\* {"role": role, "content": content, "timestamp": datetime.now().isoformat()}
Message(role, content, t) == [role |-> role, content |-> content, timestamp |-> t]

\* what a caller passed to auto_save_message
Arg(role, content) == [role |-> role, content |-> content]

ArgsOf(msgs) == [i \in 1 .. Len(msgs) |-> Arg(msgs[i].role, msgs[i].content)]

\* a file that does not exist
NoTemp == [exists |-> FALSE, complete |-> FALSE, messages |-> <<>>, message_count |-> 0]

\* json.dump({"messages": ..., "message_count": ...}) into the temp file
Snapshot(msgs, n) == [exists |-> TRUE, complete |-> TRUE, messages |-> msgs, message_count |-> n]

\* open(path, "w") truncated the file and the dump did not complete
TornTemp == [exists |-> TRUE, complete |-> FALSE, messages |-> <<>>, message_count |-> 0]

NoPerm == [exists |-> FALSE, complete |-> FALSE, session_id |-> NoId, message_count |-> 0, messages |-> <<>>]

\* json.dump({"session_id", "timestamp", "message_count", "messages"})
PermRecord(sid, n, msgs) ==
    [exists |-> TRUE, complete |-> TRUE, session_id |-> sid, message_count |-> n, messages |-> msgs]

TornPerm == [exists |-> TRUE, complete |-> FALSE, session_id |-> NoId, message_count |-> 0, messages |-> <<>>]

\* outcomes of a file write: done, open() raised, json.dump raised after open() truncated
WriteOutcomes == {"ok", "open_fails", "dump_fails"}

\* commit_session also unlinks the temp file, which may raise after the record is written
CommitOutcomes == WriteOutcomes \cup {"unlink_fails"}

WriteTempMutantStaleCount(old, msgs, n, io) ==
    CASE io = "ok" -> Snapshot(msgs, n - 1)
      [] io = "open_fails" -> old
      [] OTHER -> TornTemp

\* with open(path, "w") as f: json.dump(..., f), and what it leaves on disk
WriteTemp(old, msgs, n, io) ==
    CASE io = "ok" -> Snapshot(msgs, n)
      [] io = "open_fails" -> old
      [] OTHER -> TornTemp

(* --------------------- FactExtractionWorker (queue) --------------------- *)

\* set by Memory.__init__ (fact_worker.set_memory(self)) before any call
memory_ref == TRUE

\* queue.Queue() has no maxsize: put() never waits for room, whatever is queued
QueuePutReadyMutantBounded(q) == Len(q) < 1
QueuePutReady(q) == TRUE

\* FactExtractionWorker.schedule_extraction: queue.put(messages)
ScheduleExtraction(q, msgs) == IF ~memory_ref THEN q ELSE Append(q, msgs)

(* --------------------------- SessionManager ----------------------------- *)

\* the state Memory.start_session leaves: path set, list emptied, counter 0
\* (the temp file is not touched)
StartedPath == TRUE

\* whether auto_save_message schedules an extraction at count n
ExtractionDue(n) == n % ExtractEvery = 0 /\ n > 0

\* recent_messages = self._current_session_messages[-5:]
RecentMessagesMutantFirst(msgs) == SubSeq(msgs, 1, ExtractEvery)
RecentMessages(msgs) == LastN(msgs, ExtractEvery)

\* self._message_count += 1
NextCountMutantRestart(n) == 1
NextCount(n) == n + 1

\* the list after self._current_session_messages.append(message)
AppendMessage(msgs, m) == Append(msgs, m)

StartSessionOpMutantKeepsCount ==
    /\ current_session_path' = StartedPath
    /\ current_session_messages' = <<>>
    /\ message_count' = message_count
    /\ clock' = clock + 1
    /\ UNCHANGED <<tempFile, permFiles, queue>>
    /\ saved' = <<>>
    /\ enqLog' = enqLog

\* Memory.start_session, called directly; the id it returns is SessionIdAt(clock)
StartSessionOp ==
    /\ current_session_path' = StartedPath
    /\ current_session_messages' = <<>>
    /\ message_count' = 0
    /\ clock' = clock + 1
    /\ UNCHANGED <<tempFile, permFiles, queue>>
    /\ saved' = <<>>
    /\ enqLog' = enqLog

AutoSaveOpMutantRaises(role, content, io) ==
    LET implicit == ~current_session_path
        t == IF implicit THEN clock + 1 ELSE clock
        base == IF implicit THEN <<>> ELSE current_session_messages
        n0 == IF implicit THEN 0 ELSE message_count
        msgs == AppendMessage(base, Message(role, content, t))
        n == NextCount(n0)
        due == ExtractionDue(n) /\ io = "ok"
    IN  /\ current_session_path' = StartedPath
        /\ current_session_messages' = msgs
        /\ message_count' = n
        /\ tempFile' = WriteTemp(tempFile, msgs, n, io)
        /\ queue' = IF due THEN ScheduleExtraction(queue, RecentMessages(msgs)) ELSE queue
        /\ enqLog' = IF Len(queue') > Len(queue) THEN Append(enqLog, queue'[Len(queue')]) ELSE enqLog
        /\ saved' = Append(IF implicit THEN <<>> ELSE saved, Arg(role, content))
        /\ clock' = t + 1
        /\ UNCHANGED permFiles

\* Memory.auto_save_message(role, content); io is the outcome of the snapshot write
AutoSaveOp(role, content, io) ==
    LET implicit == ~current_session_path
        \* start_session() when no session is open: one more read of the clock
        t == IF implicit THEN clock + 1 ELSE clock
        base == IF implicit THEN <<>> ELSE current_session_messages
        n0 == IF implicit THEN 0 ELSE message_count
        msgs == AppendMessage(base, Message(role, content, t))
        n == NextCount(n0)
        due == ExtractionDue(n)
    IN  /\ due => QueuePutReady(queue)
        /\ current_session_path' = StartedPath
        /\ current_session_messages' = msgs
        /\ message_count' = n
        /\ tempFile' = WriteTemp(tempFile, msgs, n, io)
        /\ queue' = IF due THEN ScheduleExtraction(queue, RecentMessages(msgs)) ELSE queue
        /\ enqLog' = IF Len(queue') > Len(queue) THEN Append(enqLog, queue'[Len(queue')]) ELSE enqLog
        /\ saved' = Append(IF implicit THEN <<>> ELSE saved, Arg(role, content))
        /\ clock' = t + 1
        /\ UNCHANGED permFiles

\* the temp file after commit_session's unlink of an existing path
UnlinkTempMutantKeep(f) == f
UnlinkTemp(f) == NoTemp

CommitOpMutantCleansWhenEmpty(sidArg, io) ==
    IF current_session_messages = <<>>
    THEN /\ tempFile' = UnlinkTemp(tempFile)
         /\ current_session_path' = FALSE
         /\ UNCHANGED <<current_session_messages, message_count, permFiles, clock>>
    ELSE LET sid == IF sidArg = NoId THEN SessionIdAt(clock) ELSE sidArg
             written == PermRecord(sid, message_count, current_session_messages)
         IN  /\ clock' = clock + 1
             /\ permFiles' = CASE io = "open_fails" -> permFiles
                               [] io = "dump_fails" -> [permFiles EXCEPT ![sid] = TornPerm]
                               [] OTHER -> [permFiles EXCEPT ![sid] = written]
             /\ tempFile' = IF io = "ok" /\ current_session_path /\ tempFile.exists
                            THEN UnlinkTemp(tempFile) ELSE tempFile
             /\ current_session_path' = (io # "ok" /\ current_session_path)
             /\ current_session_messages' = IF io = "ok" THEN <<>> ELSE current_session_messages
             /\ message_count' = IF io = "ok" THEN 0 ELSE message_count

CommitOpMutantResetsOnFailure(sidArg, io) ==
    IF current_session_messages = <<>>
    THEN UNCHANGED <<sessVars, permFiles, clock>>
    ELSE LET sid == IF sidArg = NoId THEN SessionIdAt(clock) ELSE sidArg
             written == PermRecord(sid, message_count, current_session_messages)
         IN  /\ clock' = clock + 1
             /\ permFiles' = CASE io = "open_fails" -> permFiles
                               [] io = "dump_fails" -> [permFiles EXCEPT ![sid] = TornPerm]
                               [] OTHER -> [permFiles EXCEPT ![sid] = written]
             /\ tempFile' = IF io = "ok" /\ current_session_path /\ tempFile.exists
                            THEN UnlinkTemp(tempFile) ELSE tempFile
             /\ current_session_path' = FALSE
             /\ current_session_messages' = <<>>
             /\ message_count' = 0

\* Memory.commit_session(session_id); io is the outcome of its file operations
CommitOp(sidArg, io) ==
    IF current_session_messages = <<>>
    THEN \* "No messages to commit"
         UNCHANGED <<sessVars, permFiles, clock>>
    ELSE LET sid == IF sidArg = NoId THEN SessionIdAt(clock) ELSE sidArg
             written == PermRecord(sid, message_count, current_session_messages)
         IN  /\ clock' = clock + 1
             /\ CASE io = "open_fails" ->
                       UNCHANGED <<sessVars, permFiles>>
                  [] io = "dump_fails" ->
                       /\ permFiles' = [permFiles EXCEPT ![sid] = TornPerm]
                       /\ UNCHANGED sessVars
                  [] io = "unlink_fails" ->
                       /\ permFiles' = [permFiles EXCEPT ![sid] = written]
                       /\ UNCHANGED sessVars
                  [] OTHER ->
                       /\ permFiles' = [permFiles EXCEPT ![sid] = written]
                       /\ tempFile' = IF current_session_path /\ tempFile.exists
                                      THEN UnlinkTemp(tempFile) ELSE tempFile
                       /\ current_session_path' = FALSE
                       /\ current_session_messages' = <<>>
                       /\ message_count' = 0


(* ---------------------------- MemoryRecord ------------------------------ *)

\* str.lower() of one token of a key
Lower(tok) ==
    CASE tok = "User_" -> "user_"
      [] tok = "Name" -> "name"
      [] OTHER -> tok

\* key.lower()
LowerKey(key) == [i \in 1 .. Len(key) |-> Lower(key[i])]

\* s.replace("user_", ""): every occurrence goes, not only a prefix
RECURSIVE StripUser(_)
StripUser(key) ==
    IF key = <<>> THEN <<>>
    ELSE IF Head(key) = "user_" THEN StripUser(Tail(key))
         ELSE <<Head(key)>> \o StripUser(Tail(key))

\* a key is a string cut into tokens; what is left and right of a removed
\* "user_" becomes one piece of text: "na" next to "me" reads "name"
RECURSIVE Rejoin(_)
Rejoin(key) ==
    IF Len(key) < 2 THEN key
    ELSE IF key[1] = "na" /\ key[2] = "me" THEN Rejoin(<<"name">> \o SubSeq(key, 3, Len(key)))
         ELSE <<Head(key)>> \o Rejoin(Tail(key))

\* clean_key = key.lower().replace("user_", "")
CleanKey(key) == Rejoin(StripUser(LowerKey(key)))

\* key.startswith("user_"), on the key as given
StartsWithUser(key) == key # <<>> /\ Head(key) = "user_"

profile_keys ==
    {<<"name">>, <<"age">>, <<"location">>, <<"occupation">>, <<"job">>, <<"email">>,
     <<"language">>, <<"preferences">>, <<"background">>, <<"interests">>, <<"hobbies">>}

\* d[key] = value on a dict
PutMutantToggle(m, k, v) ==
    IF k \in DOMAIN m /\ m[k] = v
    THEN [x \in DOMAIN m \ {k} |-> m[x]]
    ELSE [x \in DOMAIN m \cup {k} |-> IF x = k THEN v ELSE m[x]]
Put(m, k, v) == [x \in DOMAIN m \cup {k} |-> IF x = k THEN v ELSE m[x]]

EmptyMap == [x \in {} |-> "none"]

EmptyData == [user_profile |-> EmptyMap, facts |-> EmptyMap, conversation_summaries |-> <<>>]

\* Memory.remember: the record after the assignment (before _save)
Remember(d, key, value) ==
    IF CleanKey(key) \in profile_keys \/ StartsWithUser(key)
    THEN [d EXCEPT !.user_profile = Put(@, CleanKey(key), value)]
    ELSE [d EXCEPT !.facts = Put(@, key, value)]

\* the keys and values remember() is called with in the model
RememberKeys ==
    { <<"name">>, <<"Name">>, <<"job">>, <<"pet">>, <<"user_">>,
      <<"user_", "name">>, <<"User_", "Name">>, <<"user_", "pet">>,
      <<"super", "user_", "id">>, <<"user_", "super", "user_", "id">>,
      <<"na", "user_", "me">> }

RememberValues == {"v1", "v2"}

\* json.dump(self._data): one cell for the braces and one per entry, each cell
\* tagged with the record it was serialised from
Serialize(d) ==
    [i \in 1 .. (1 + Cardinality(DOMAIN d.user_profile) + Cardinality(DOMAIN d.facts)
                     + Len(d.conversation_summaries))
        |-> [rec |-> d, pos |-> i]]


\* _DEFAULTS["memory"]["max_conversation_summaries"]
DefaultMaxSummaries == 50

\* the values config.yaml may give memory.max_conversation_summaries (it is read
\* without validation); the last one is the default
ConfiguredMax == {0, 1, 2, DefaultMaxSummaries}

\* list[-n:] for n >= 0: "-0" is 0, so list[-0:] is the whole list
SliceLast(list, n) == IF n = 0 THEN list ELSE LastN(list, n)

\* Memory.add_conversation_summary(summary); the configuration is the same at
\* every call (max_summaries is NoId until the first call reads it)
AddConversationSummary ==
    /\ Len(summaryLog) < MaxSummaries
    /\ \E m \in ConfiguredMax :
          /\ max_summaries \in {NoId, m}
          /\ max_summaries' = m
          /\ LET entry == [date |-> clock, summary |-> "s"]
                 appended == Append(data.conversation_summaries, entry)
             IN  /\ data' = [data EXCEPT !.conversation_summaries =
                                  IF Len(appended) > m THEN SliceLast(appended, m) ELSE appended]
                 /\ summaryLog' = Append(summaryLog, entry)
    /\ memFile' = Serialize(data')
    /\ clock' = clock + 1
    /\ lastCall' = "add_conversation_summary"
    /\ UNCHANGED <<sessVars, permFiles, workerVars, lastIo, snapshotIo, saved, enqLog, consLog,
                   brainVars, raceVars, lastExtract, stopSnap, profileStore, rememberLog, lastTool,
                   noteLog, crashSaved, isEmptyResult, summaryLines, voiceVars>>

(* ------------------------ FactExtractionWorker -------------------------- *)

\* queue.get(): the job taken, and what stays queued
QueueGetMutantNewest(q) == q[Len(q)]
QueueGetMutantLive(q) == LastN(current_session_messages, ExtractEvery)
QueueGet(q) == Head(q)

QueueRest(q) == Tail(q)

\* what one _extract_facts call comes to: kind says how far it got, and
\* user_profile / facts are the (key, value) entries of the two JSON sections
Extracted(kind, profile, facts) == [kind |-> kind, user_profile |-> profile, facts |-> facts]

NoExtract == Extracted("none", <<>>, <<>>)

\* the completion call raises; json.loads raises; the response holds no braces;
\* "facts" is not an object (its .items() raises after "user_profile" was merged);
\* or both sections are objects
ExtractOutcomes ==
    { Extracted("api_fails", <<>>, <<>>),
      Extracted("parse_fails", <<>>, <<>>),
      Extracted("no_json", <<>>, <<>>),
      Extracted("shape_fails", << <<(<<"job">>), "v1">> >>, <<>>),
      Extracted("ok", <<>>, <<>>),
      Extracted("ok", << <<(<<"name">>), "v1">> >>, <<>>),
      Extracted("ok", << <<(<<"pet">>), "v1">> >>, << <<(<<"User_", "Name">>), "v2">> >>) }

\* the outcomes without a partly merged response
PlainOutcomes ==
    { Extracted("api_fails", <<>>, <<>>),
      Extracted("ok", <<>>, <<>>),
      Extracted("ok", << <<(<<"name">>), "v1">> >>, <<>>) }

RECURSIVE RememberAll(_, _)
RememberAll(d, items) ==
    IF items = <<>> THEN d
    ELSE RememberAll(Remember(d, Head(items)[1], Head(items)[2]), Tail(items))

\* the two loops of _extract_facts: remember(key, value) for each entry of
\* "user_profile", then for each entry of "facts"
MergeExtractedMutantBySection(d, extracted) ==
    LET PutAll(m, items) ==
            [k \in DOMAIN m \cup {items[i][1] : i \in 1 .. Len(items)} |->
                IF \E i \in 1 .. Len(items) : items[i][1] = k
                THEN items[CHOOSE i \in 1 .. Len(items) : items[i][1] = k][2]
                ELSE m[k]]
    IN  [user_profile |-> PutAll(d.user_profile, extracted.user_profile),
         facts |-> PutAll(d.facts, extracted.facts),
         conversation_summaries |-> d.conversation_summaries]
MergeExtracted(d, extracted) == RememberAll(d, extracted.user_profile \o extracted.facts)

AfterExtractMutantStoresRaw(d, out) ==
    CASE out.kind = "ok" -> MergeExtracted(d, out)
      [] out.kind = "shape_fails" -> RememberAll(d, out.user_profile)
      [] out.kind = "parse_fails" -> Remember(d, <<"raw">>, "v1")
      [] OTHER -> d

\* the record after an extraction that came to out
AfterExtract(d, out) ==
    CASE out.kind = "ok" -> MergeExtracted(d, out)
      [] out.kind = "shape_fails" -> RememberAll(d, out.user_profile)
      [] OTHER -> d

WorkerCheckMutantIgnoresStop ==
    /\ workerPc = "check"
    /\ workerPc' = "wait"
    /\ lastCall' = "worker_check"
    /\ UNCHANGED <<clock, sessVars, permFiles, queue, stop_event, workerJob, lastIo, snapshotIo, saved,
                   enqLog, consLog, data, memFile, brainVars, raceVars, auxVars>>

\* while not self._stop_event.is_set()
WorkerCheck ==
    /\ workerPc = "check"
    /\ workerPc' = IF stop_event THEN "stopped" ELSE "wait"
    /\ lastCall' = "worker_check"
    /\ UNCHANGED <<clock, sessVars, permFiles, queue, stop_event, workerJob, lastIo, snapshotIo, saved,
                   enqLog, consLog, data, memFile, brainVars, raceVars, auxVars>>

\* messages = self.queue.get(timeout=1), a job being there
WorkerGet ==
    /\ workerPc = "wait"
    /\ queue # <<>>
    /\ workerJob' = QueueGet(queue)
    /\ queue' = QueueRest(queue)
    /\ consLog' = Append(consLog, workerJob')
    /\ workerPc' = "extract"
    /\ lastCall' = "worker_get"
    /\ UNCHANGED <<clock, sessVars, permFiles, stop_event, lastIo, snapshotIo, saved, enqLog,
                   data, memFile, brainVars, raceVars, auxVars>>

\* queue.Empty after the timeout: continue
WorkerEmpty ==
    /\ workerPc = "wait"
    /\ queue = <<>>
    /\ workerPc' = "check"
    /\ lastCall' = "worker_empty"
    /\ UNCHANGED <<clock, sessVars, permFiles, queue, stop_event, workerJob, lastIo, snapshotIo, saved,
                   enqLog, consLog, data, memFile, brainVars, raceVars, auxVars>>

\* self._extract_facts(messages), with no other writer of memory.json at work;
\* then queue.task_done()
WorkerExtract(outcomes) ==
    /\ workerPc = "extract"
    /\ \E out \in outcomes :
          /\ data' = AfterExtract(data, out)
          \* remember() rewrites memory.json at every call
          /\ memFile' = IF out.kind \in {"ok", "shape_fails"} /\ out.user_profile \o out.facts # <<>>
                        THEN Serialize(data') ELSE memFile
          /\ lastExtract' = out
    /\ workerJob' = <<>>
    /\ workerPc' = "check"
    /\ lastCall' = "worker_extract"
    /\ UNCHANGED <<clock, sessVars, permFiles, queue, stop_event, lastIo, snapshotIo, saved,
                   enqLog, consLog, brainVars, raceVars, stopSnap, profileStore, rememberLog, lastTool,
                   storeVars>>

\* FactExtractionWorker.stop()
StopWorker ==
    /\ ~stop_event
    /\ stop_event' = TRUE
    /\ stopSnap' = workerPc
    /\ lastCall' = "stop"
    /\ UNCHANGED <<clock, sessVars, permFiles, queue, workerPc, workerJob, lastIo, snapshotIo, saved,
                   enqLog, consLog, data, memFile, brainVars, raceVars, lastExtract, profileStore,
                   rememberLog, lastTool, storeVars>>

\* memory.remember(key, value) with no other writer of memory.json at work:
\* the assignment and _save()
RememberCall ==
    /\ Len(rememberLog) < MaxRemembers
    /\ \E key \in RememberKeys, value \in RememberValues :
          /\ data' = Remember(data, key, value)
          /\ rememberLog' = Append(rememberLog, <<key, value>>)
    /\ memFile' = Serialize(data')
    /\ lastCall' = "remember"
    /\ UNCHANGED <<clock, sessVars, permFiles, workerVars, lastIo, snapshotIo, saved, enqLog,
                   consLog, brainVars, raceVars, lastExtract, stopSnap, profileStore, lastTool,
                   storeVars>>

\* the default profile structure of UserProfile._load
EmptyProfile ==
    [personal |-> EmptyMap, interests |-> <<>>, pets |-> <<>>, family |-> EmptyMap,
     projects |-> <<>>, preferences |-> EmptyMap, goals |-> <<>>, tech_stack |-> <<>>,
     important_dates |-> EmptyMap, notes |-> <<>>]

\* UserProfile.is_empty
IsEmptyMutantAllFields(p) == p = EmptyProfile
IsEmpty(p) ==
    /\ p.personal = EmptyMap
    /\ p.interests = <<>>
    /\ p.pets = <<>>
    /\ p.family = EmptyMap
    /\ p.projects = <<>>
    /\ p.goals = <<>>

\* Memory.is_new_user
IsNewUserMutantMemoryOnly(d, p) ==
    d.user_profile = EmptyMap /\ d.facts = EmptyMap /\ d.conversation_summaries = <<>>
IsNewUser(d, p) ==
    /\ d.user_profile = EmptyMap
    /\ d.facts = EmptyMap
    /\ d.conversation_summaries = <<>>
    /\ IsEmpty(p)

\* tools/profile_tools.update_profile_personal -> UserProfile.update_personal
UpdatePersonal ==
    /\ \E field \in {<<"name">>}, value \in {"v1", "v2"} :
          profileStore' = [profileStore EXCEPT !.personal = Put(@, field, value)]
    /\ lastCall' = "update_personal"
    /\ UNCHANGED <<clock, sessVars, permFiles, workerVars, lastIo, snapshotIo, saved, enqLog,
                   consLog, data, memFile, brainVars, raceVars, lastExtract, stopSnap, rememberLog,
                   lastTool, storeVars>>

(* ------------------------------ UserProfile ------------------------------ *)

\* what a method of UserProfile leaves alone, beside the store itself
besideProfile ==
    <<sessVars, permFiles, workerVars, lastIo, snapshotIo, saved, enqLog, consLog, data,
      memFile, brainVars, raceVars, lastExtract, stopSnap, rememberLog, lastTool,
      summaryLog, max_summaries, crashSaved, voiceVars>>

\* list.append(x) unless x is in the list already
AddOnce(list, x) == IF \E i \in 1 .. Len(list) : list[i] = x THEN list ELSE Append(list, x)

\* list.remove(x) if x is in the list
RECURSIVE Without(_, _)
Without(list, x) ==
    IF list = <<>> THEN <<>>
    ELSE IF Head(list) = x THEN Tail(list)
         ELSE <<Head(list)>> \o Without(Tail(list), x)

\* the profile after a method that sets p[field] to value
ProfileCall(name, field, value) ==
    /\ profileStore' = [profileStore EXCEPT ![field] = value]
    /\ lastCall' = name
    /\ UNCHANGED <<clock, besideProfile, noteLog, isEmptyResult, summaryLines>>

\* UserProfile.add_interest / remove_interest
AddInterest == ProfileCall("add_interest", "interests", AddOnce(profileStore.interests, "hiking"))

RemoveInterest ==
    ProfileCall("remove_interest", "interests", Without(profileStore.interests, "hiking"))

\* UserProfile.add_pet: appended at every call
AddPet ==
    /\ Len(profileStore.pets) < MaxEntries
    /\ ProfileCall("add_pet", "pets",
                   Append(profileStore.pets, [name |-> "rex", type |-> "dog", breed |-> "", notes |-> ""]))

\* UserProfile.update_family
UpdateFamily == ProfileCall("update_family", "family", Put(profileStore.family, <<"sibling">>, "v1"))

\* UserProfile.add_project: appended at every call (without the "added" date)
AddProject ==
    /\ Len(profileStore.projects) < MaxEntries
    /\ ProfileCall("add_project", "projects",
                   Append(profileStore.projects, [name |-> "p", description |-> "", status |-> "active"]))

\* UserProfile.update_preference
UpdatePreference ==
    ProfileCall("update_preference", "preferences", Put(profileStore.preferences, <<"style">>, "v1"))

\* UserProfile.add_goal
AddGoal == ProfileCall("add_goal", "goals", AddOnce(profileStore.goals, "run"))

\* UserProfile.add_tech
AddTech == ProfileCall("add_tech", "tech_stack", AddOnce(profileStore.tech_stack, "tla"))

\* UserProfile.add_date
AddDate ==
    ProfileCall("add_date", "important_dates", Put(profileStore.important_dates, <<"birthday">>, "v1"))

\* "Keep only last 50 notes"
NotesLimit == 50

\* notes after the append: self._data["notes"][-50:] when there are more than 50
TrimNotesMutantKeepOldest(notes) ==
    IF Len(notes) > NotesLimit THEN SubSeq(notes, 1, NotesLimit) ELSE notes
TrimNotes(notes) == IF Len(notes) > NotesLimit THEN LastN(notes, NotesLimit) ELSE notes

\* UserProfile.add_note(note), fewer than limit notes added so far
AddNote(limit) ==
    /\ Len(noteLog) < limit
    /\ LET note_entry == [date |-> clock, note |-> "n"]
       IN  /\ profileStore' = [profileStore EXCEPT !.notes = TrimNotes(Append(@, note_entry))]
           /\ noteLog' = Append(noteLog, note_entry)
    /\ clock' = clock + 1
    /\ lastCall' = "add_note"
    /\ UNCHANGED <<besideProfile, isEmptyResult, summaryLines>>

\* a call of user_profile.is_empty()
ProfileIsEmpty ==
    /\ isEmptyResult' = IsEmpty(profileStore)
    /\ lastCall' = "is_empty"
    /\ UNCHANGED <<clock, besideProfile, profileStore, noteLog, summaryLines>>

\* the first n entries of a list: list[:n]
FirstN(list, n) == IF Len(list) <= n THEN list ELSE SubSeq(list, 1, n)

\* the names of the active projects, in order
RECURSIVE ActiveProjects(_)
ActiveProjects(projects) ==
    IF projects = <<>> THEN <<>>
    ELSE (IF Head(projects).status = "active" THEN <<Head(projects).name>> ELSE <<>>)
            \o ActiveProjects(Tail(projects))

\* UserProfile._has_additional_context
HasAdditionalContext(p) ==
    \/ Len(p.interests) > 3
    \/ Len(p.pets) > 0
    \/ DOMAIN p.family # {}
    \/ Len(p.goals) > 0
    \/ DOMAIN p.preferences # {}

\* the line telling that the profile tools have more
HintLine == [kind |-> "hint", items |-> <<>>]

\* UserProfile.get_system_prompt_summary(max_lines, include_context_hints = True):
\* the lines it joins
SystemPromptSummary(p, max_lines) ==
    LET name == IF <<"name">> \in DOMAIN p.personal THEN <<p.personal[<<"name">>]>> ELSE <<>>
        occupation == IF <<"occupation">> \in DOMAIN p.personal
                      THEN <<p.personal[<<"occupation">>]>> ELSE <<>>
        identity == IF name \o occupation = <<>> THEN <<>>
                    ELSE <<[kind |-> "user", items |-> name \o occupation]>>
        interests == IF p.interests = <<>> THEN <<>>
                     ELSE <<[kind |-> "interests", items |-> FirstN(p.interests, 3)]>>
        working == IF ActiveProjects(p.projects) = <<>> THEN <<>>
                   ELSE <<[kind |-> "working_on", items |-> FirstN(ActiveProjects(p.projects), 2)]>>
        uses == IF p.tech_stack = <<>> THEN <<>>
                ELSE <<[kind |-> "uses", items |-> FirstN(p.tech_stack, 3)]>>
    IN  FirstN(identity \o interests \o working \o uses, max_lines)
           \o (IF HasAdditionalContext(p) THEN <<HintLine>> ELSE <<>>)

\* a call of user_profile.get_system_prompt_summary(max_lines=5), as memory makes it
ProfileSummary ==
    /\ summaryLines' = SystemPromptSummary(profileStore, 5)
    /\ lastCall' = "get_system_prompt_summary"
    /\ UNCHANGED <<clock, besideProfile, profileStore, noteLog, isEmptyResult>>

(* ----------------------- calls on the Memory object ---------------------- *)

\* time passes between calls
Tick(horizon) ==
    /\ clock < horizon
    /\ clock' = clock + 1
    /\ lastCall' = "tick"
    /\ UNCHANGED <<sessVars, permFiles, workerVars, lastIo, snapshotIo, saved, enqLog, consLog,
                   data, memFile, brainVars, raceVars, auxVars>>

\* memory.start_session() by a caller that keeps the id to itself
StartSession(horizon) ==
    /\ clock < horizon
    /\ StartSessionOp
    /\ lastCall' = "start_session"
    /\ lastIo' = "ok"
    /\ UNCHANGED <<stop_event, workerPc, workerJob, snapshotIo, consLog, data, memFile, brainVars, raceVars, auxVars>>

UserTexts == {<<"hi">>}

\* memory.auto_save_message(role, content), the session holding fewer than limit messages
AutoSaveMessage(limit, horizon, roles) ==
    /\ clock + 2 <= horizon
    /\ Len(current_session_messages) < limit
    /\ \E role \in roles, content \in UserTexts, io \in WriteOutcomes :
          /\ AutoSaveOp(role, content, io)
          /\ lastIo' = io
          /\ snapshotIo' = io
    /\ lastCall' = "auto_save_message"
    /\ UNCHANGED <<stop_event, workerPc, workerJob, consLog, data, memFile, brainVars, raceVars, auxVars>>

\* memory.commit_session(sid), sid an id some start_session may have returned, or None
CommitSession(horizon) ==
    /\ clock < horizon
    /\ \E sid \in {NoId} \cup {i \in SessionIds : i <= SessionIdAt(clock)}, io \in CommitOutcomes :
          /\ CommitOp(sid, io)
          /\ lastIo' = io
    /\ lastCall' = "commit_session"
    /\ UNCHANGED <<workerVars, snapshotIo, saved, enqLog, consLog, data, memFile, brainVars, raceVars, auxVars>>

\* the process stops and is started again: Memory.__init__ and Brain.__init__ set
\* the objects up anew and read no session file, and the files stay as they
\* were. crashSaved records what the temp snapshot held of the session in progress.
Crash ==
    /\ crashSaved = <<>>
    /\ crashSaved' = IF current_session_messages # <<>> /\ tempFile.exists /\ tempFile.complete
                     THEN tempFile.messages
                     ELSE <<>>
    /\ current_session_path' = FALSE
    /\ current_session_messages' = <<>>
    /\ message_count' = 0
    /\ queue' = <<>>
    /\ stop_event' = FALSE
    /\ workerPc' = "check"
    /\ workerJob' = <<>>
    /\ conversation' = <<>>
    /\ current_mode' = "buddy"
    /\ mode_history' = <<>>
    /\ session_id' = NoId
    /\ chatPc' = "idle"
    /\ iters' = 0
    /\ final_text' = <<>>
    /\ tool_uses' = <<>>
    /\ tool_results' = <<>>
    /\ mode_switch_announcement' = <<>>
    /\ lastCall' = "crash"
    /\ UNCHANGED <<clock, tempFile, permFiles, lastIo, snapshotIo, saved, enqLog, consLog, data,
                   memFile, returned, lastResult, lastRequest, raceVars, lastExtract, stopSnap,
                   profileStore, rememberLog, lastTool, noteLog, summaryLog, max_summaries,
                   isEmptyResult, summaryLines, voiceVars>>

\* where inside the snapshot write of auto_save_message the process may stop
CrashPoints == {"before_open", "after_open", "during_dump", "after_dump"}

\* the temp file a stop at that point leaves: open(path, "w") truncates the
\* file in place and json.dump then writes into it piece by piece
TempAtCrash(old, msgs, n, point) ==
    CASE point = "before_open" -> old
      [] point = "after_dump" -> Snapshot(msgs, n)
      [] OTHER -> TornTemp

\* the process stops inside memory.auto_save_message(role, content), after the
\* append and somewhere in the snapshot write, and is started again
CrashInAutoSave ==
    /\ crashSaved = <<>>
    /\ clock + 2 <= MaxClock
    /\ Len(current_session_messages) < MaxMsgs
    /\ \E content \in UserTexts, point \in CrashPoints :
          LET implicit == ~current_session_path
              t == IF implicit THEN clock + 1 ELSE clock
              base == IF implicit THEN <<>> ELSE current_session_messages
              n0 == IF implicit THEN 0 ELSE message_count
              msgs == AppendMessage(base, Message("user", content, t))
          IN  /\ tempFile' = TempAtCrash(tempFile, msgs, NextCount(n0), point)
              /\ clock' = t + 1
              /\ lastIo' = point
    /\ crashSaved' = IF tempFile'.exists /\ tempFile'.complete THEN tempFile'.messages ELSE <<>>
    /\ current_session_path' = FALSE
    /\ current_session_messages' = <<>>
    /\ message_count' = 0
    /\ queue' = <<>>
    /\ stop_event' = FALSE
    /\ workerPc' = "check"
    /\ workerJob' = <<>>
    /\ conversation' = <<>>
    /\ current_mode' = "buddy"
    /\ mode_history' = <<>>
    /\ session_id' = NoId
    /\ chatPc' = "idle"
    /\ iters' = 0
    /\ final_text' = <<>>
    /\ tool_uses' = <<>>
    /\ tool_results' = <<>>
    /\ mode_switch_announcement' = <<>>
    /\ lastCall' = "crash_in_auto_save"
    /\ UNCHANGED <<permFiles, snapshotIo, saved, enqLog, consLog, data,
                   memFile, returned, lastResult, lastRequest, raceVars, lastExtract, stopSnap,
                   profileStore, rememberLog, lastTool, noteLog, summaryLog, max_summaries,
                   isEmptyResult, summaryLines, voiceVars>>

(* --------------------------- ModeRegistry ------------------------------- *)

Modes == {"buddy", "research"}

\* MODE_CONFIG[mode]["name"], ["emoji"], ["description"]
ModeName(m) == IF m = "buddy" THEN "Buddy Mode" ELSE "Research Mode"
ModeEmoji(m) == IF m = "buddy" THEN "wave" ELSE "microscope"
ModeDescription(m) ==
    IF m = "buddy" THEN "Quick, casual, and friendly" ELSE "Deep, thorough, academic analysis"

\* modes.get_mode_announcement(mode, reason)
GetModeAnnouncement(m, reason) ==
    IF reason # <<>>
    THEN <<ModeEmoji(m), " Switching to ", ModeName(m), " - ">> \o reason
    ELSE <<ModeEmoji(m), " Now in ", ModeName(m), " (", ModeDescription(m), ")">>

(* ------------------------------- Brain ---------------------------------- *)

\* content blocks of a completion response
TextBlock(t) == [type |-> "text", text |-> t, id |-> "", name |-> "", input |-> EmptyMap]
ToolUseWith(id, name, input) ==
    [type |-> "tool_use", text |-> <<>>, id |-> id, name |-> name, input |-> input]
ToolUse(id, name) == ToolUseWith(id, name, EmptyMap)
ThinkingBlock == [type |-> "thinking", text |-> <<>>, id |-> "", name |-> "", input |-> EmptyMap]

\* the responses the completion service gives in the model
Responses ==
    { <<TextBlock(<<"t1">>)>>,
      <<ThinkingBlock>>,
      <<TextBlock(<<"t1">>), TextBlock(<<"t2">>)>>,
      <<TextBlock(<<"t2">>), ToolUse("a", "switch_mode")>>,
      <<ToolUse("a", "run_shell"), ToolUse("b", "switch_mode")>>,
      <<ToolUse("a", "no_such_tool"), ToolUse("b", "run_shell")>> }

\* responses that invoke the tools writing to the user profile and the memory record
ProfileResponses ==
    { <<ToolUseWith("a", "update_profile_personal", [field |-> <<"name">>, value |-> "v1"]),
        ToolUseWith("b", "add_profile_interest", [interest |-> "hiking"])>>,
      <<ToolUseWith("a", "add_profile_interest", [interest |-> "chess"])>>,
      <<ToolUseWith("a", "remember", [key |-> <<"pet">>, value |-> "v1"])>> }

\* responses that invoke the shell and switch_mode
ModeResponses ==
    { <<TextBlock(<<"t2">>), ToolUse("a", "switch_mode")>>,
      <<ToolUse("a", "run_shell"), ToolUse("b", "switch_mode")>> }

\* the responses without tool invocations or several text blocks
PlainResponses == { <<TextBlock(<<"t1">>)>>, <<ThinkingBlock>> }

\* the blocks of one type, in order
RECURSIVE BlocksOfType(_, _)
BlocksOfType(blocks, type) ==
    IF blocks = <<>> THEN <<>>
    ELSE (IF Head(blocks).type = type THEN <<Head(blocks)>> ELSE <<>>)
            \o BlocksOfType(Tail(blocks), type)

\* "\n".join(text_parts)
RECURSIVE JoinText(_)
JoinText(parts) ==
    IF parts = <<>> THEN <<>>
    ELSE IF Len(parts) = 1 THEN parts[1].text
         ELSE parts[1].text \o <<"\n">> \o JoinText(Tail(parts))

\* final_text after "if text_parts: final_text = ..."
NextFinalText(old, text_parts) == IF text_parts # <<>> THEN JoinText(text_parts) ELSE old

\* entries of the transcript
UserEntry(text) ==
    [role |-> "user", kind |-> "text", text |-> text, blocks |-> <<>>, results |-> <<>>]
AssistantEntry(blocks) ==
    [role |-> "assistant", kind |-> "blocks", text |-> <<>>, blocks |-> blocks, results |-> <<>>]
ToolResultsEntry(results) ==
    [role |-> "user", kind |-> "tool_results", text |-> <<>>, blocks |-> <<>>, results |-> results]

\* {"type": "tool_result", "tool_use_id": tool_block.id, "content": result}
ToolResult(block, result) ==
    [type |-> "tool_result", tool_use_id |-> block.id, content |-> result]

\* what switch_mode returns for a valid mode: f"MODE_SWITCH:{mode}:{reason}"
Sentinel(m, reason) == <<"MODE_SWITCH", ":", m, ":">> \o reason

\* the names in the registry _tools that the model uses
RegisteredTools ==
    {"switch_mode", "run_shell", "update_profile_personal", "add_profile_interest", "remember"}

\* what func(**arguments) does, by tool: it returns a string or raises
Returns(value) == [raises |-> FALSE, value |-> value]
Raises == [raises |-> TRUE, value |-> <<>>]

ToolBehaviours(name) ==
    IF name = "switch_mode"
    THEN { Returns(Sentinel("research", <<"deep", ":", "dive">>)),
           Returns(Sentinel("buddy", <<>>)),
           Returns(<<"Error", ":", "Invalid mode">>),
           Raises }
    ELSE IF name = "update_profile_personal" THEN { Returns(<<"Updated">>) }
    ELSE IF name = "add_profile_interest" THEN { Returns(<<"Added interest">>) }
    ELSE IF name = "remember" THEN { Returns(<<"Remembered">>) }
    ELSE { Returns(<<"ok">>), Raises }

\* the same, with a run_shell that returns what its command printed: text that
\* reads like the signal of switch_mode, for a known and for an unknown mode
PrintingBehaviours(name) ==
    IF name = "run_shell"
    THEN { Returns(<<"ok">>), Returns(Sentinel("research", <<"printed">>)),
           Returns(Sentinel("turbo", <<>>)) }
    ELSE ToolBehaviours(name)

\* the user profile after func(**arguments) of the tool invoked by block
ProfileAfterToolMutantPersonalOnly(block, b, p) ==
    IF block.name = "update_profile_personal"
    THEN [p EXCEPT !.personal = Put(@, block.input.field, block.input.value)]
    ELSE p
ProfileAfterTool(block, b, p) ==
    IF block.name \notin RegisteredTools \/ b.raises THEN p
    ELSE IF block.name = "update_profile_personal"
         THEN [p EXCEPT !.personal = Put(@, block.input.field, block.input.value)]
    ELSE IF block.name = "add_profile_interest"
         THEN [p EXCEPT !.interests = AddOnce(@, block.input.interest)]
    ELSE p

\* the memory record after func(**arguments) of the tool invoked by block
DataAfterTool(block, b, d) ==
    IF block.name = "remember" /\ ~b.raises
    THEN Remember(d, block.input.key, block.input.value)
    ELSE d

\* execute_tool(name, arguments), the call of the tool behaving as b
ExecuteToolMutantBareMessage(name, b) ==
    IF name \notin RegisteredTools THEN <<"Unknown tool ", name>>
    ELSE IF b.raises THEN <<"executing ", name>>
         ELSE b.value
ExecuteTool(name, b) ==
    IF name \notin RegisteredTools THEN <<"Error", ": Unknown tool ", name>>
    ELSE IF b.raises THEN <<"Error", " executing ", name>>
         ELSE b.value

\* what execute_tool may return, by tool
ToolOutputs(name) == { ExecuteTool(name, b) : b \in ToolBehaviours(name) }

\* result.startswith("MODE_SWITCH:")
StartsWithSentinel(r) == Len(r) >= 2 /\ r[1] = "MODE_SWITCH" /\ r[2] = ":"

\* positions of ":" in r
Colons(r) == {i \in 1 .. Len(r) : r[i] = ":"}

Min(S) == CHOOSE x \in S : \A y \in S : x <= y

\* result.split(":", 2): at most two splits, the rest kept whole
Split2MutantSplitAll(r) ==
    IF Colons(r) = {} THEN <<r>>
    ELSE LET c1 == Min(Colons(r))
             rest1 == SubSeq(r, c1 + 1, Len(r))
         IN  IF Colons(rest1) = {} THEN <<SubSeq(r, 1, c1 - 1), rest1>>
             ELSE LET c2 == Min(Colons(rest1))
                      rest2 == SubSeq(rest1, c2 + 1, Len(rest1))
                  IN  <<SubSeq(r, 1, c1 - 1), SubSeq(rest1, 1, c2 - 1),
                        IF Colons(rest2) = {} THEN rest2
                        ELSE SubSeq(rest2, 1, Min(Colons(rest2)) - 1)>>
Split2(r) ==
    IF Colons(r) = {} THEN <<r>>
    ELSE LET c1 == Min(Colons(r))
             rest1 == SubSeq(r, c1 + 1, Len(r))
         IN  IF Colons(rest1) = {} THEN <<SubSeq(r, 1, c1 - 1), rest1>>
             ELSE LET c2 == Min(Colons(rest1))
                  IN  <<SubSeq(r, 1, c1 - 1), SubSeq(rest1, 1, c2 - 1),
                        SubSeq(rest1, c2 + 1, Len(rest1))>>

\* the Mode named by new_mode_str, "none" for None
ParseMode(str) ==
    IF str = <<"buddy">> THEN "buddy"
    ELSE IF str = <<"research">> THEN "research"
    ELSE "none"

\* f"Mode switched to {new_mode.value}"
Confirmation(m) == <<"Mode switched to ", m>>

\* the mode switch a tool result asks for: [switch, to, reason]
SwitchOfMutantSameMode(result, mode) ==
    IF StartsWithSentinel(result) /\ Len(Split2(result)) >= 2
    THEN LET parts == Split2(result)
             new_mode == ParseMode(parts[2])
             reason == IF Len(parts) > 2 THEN parts[3] ELSE <<>>
         IN  [switch |-> new_mode # "none", to |-> new_mode, reason |-> reason]
    ELSE [switch |-> FALSE, to |-> "none", reason |-> <<>>]
SwitchOf(result, mode) ==
    IF StartsWithSentinel(result) /\ Len(Split2(result)) >= 2
    THEN LET parts == Split2(result)
             new_mode == ParseMode(parts[2])
             reason == IF Len(parts) > 2 THEN parts[3] ELSE <<>>
         IN  [switch |-> new_mode # "none" /\ new_mode # mode, to |-> new_mode, reason |-> reason]
    ELSE [switch |-> FALSE, to |-> "none", reason |-> <<>>]

\* one entry of mode_history (its timestamp is the clock)
HistoryEntry(old, new, reason, t) ==
    [from |-> old, to |-> new, reason |-> reason, timestamp |-> t]

\* self.conversation.append({"role": "user", "content": tool_results})
AppendToolResultsMutantOnePerTool(conv, results) ==
    conv \o [i \in 1 .. Len(results) |-> ToolResultsEntry(<<results[i]>>)]
AppendToolResultsMutantOverLast(conv, results) ==
    SubSeq(conv, 1, Len(conv) - 1) \o <<ToolResultsEntry(results)>>
AppendToolResults(conv, results) == Append(conv, ToolResultsEntry(results))

\* brain.session_id = memory.start_session()  (main, VoiceController.__init__)
MainStart ==
    /\ clock < MaxClock
    /\ chatPc = "idle"
    /\ session_id' = SessionIdAt(clock)
    /\ StartSessionOp
    /\ lastCall' = "main_start"
    /\ lastIo' = "ok"
    /\ UNCHANGED <<raceVars, auxVars, stop_event, workerPc, workerJob, snapshotIo, consLog, data, memFile,
                   conversation, current_mode, mode_history, chatPc, iters, final_text,
                   tool_uses, tool_results, mode_switch_announcement, returned, lastResult,
                   lastRequest>>

\* MODE_CONFIG: token budget, extended reasoning and its budget, guidance text
MaxTokens(m) == 4096
ExtendedThinking(m) == m = "research"
BudgetTokens(m) == IF m = "research" THEN 15000 ELSE 0
StyleGuidance(m) == IF m = "buddy" THEN "buddy guidance" ELSE "research guidance"

\* config.extended_thinking, at its defaults
GlobalThinking == [enabled |-> FALSE, budget_tokens |-> 10000]

NoThinking == [enabled |-> FALSE, budget_tokens |-> 0]

NoRequest ==
    [max_tokens |-> 0, mode |-> "", guidance |-> "", first_meeting |-> FALSE,
     messages |-> <<>>, thinking |-> NoThinking]

\* the mode whose configuration a request is built from
RequestModeMutantInitial(mode) == "buddy"
RequestMode(mode) == mode

\* Brain._build_api_params, with the parts of _build_system_prompt that depend
\* on the mode and on the stores, from the state as it is when the request is built
BuildApiParams ==
    LET m == RequestMode(current_mode)
    IN  [max_tokens |-> MaxTokens(m),
         mode |-> ModeName(m),
         guidance |-> StyleGuidance(m),
         first_meeting |-> IsNewUser(data, profileStore),
         messages |-> conversation,
         thinking |-> IF ExtendedThinking(m)
                      THEN [enabled |-> TRUE, budget_tokens |-> BudgetTokens(m)]
                      ELSE IF GlobalThinking.enabled
                           THEN [enabled |-> TRUE, budget_tokens |-> GlobalThinking.budget_tokens]
                           ELSE NoThinking]

\* Brain.chat(user_message) up to its first completion request, begun while the
\* clock leaves it room below horizon
ChatBegin(ios, horizon) ==
    /\ chatPc = "idle"
    /\ clock + 2 <= horizon
    /\ Len(current_session_messages) < MaxMsgs
    /\ \E user_message \in UserTexts, io \in ios :
          /\ conversation' = Append(conversation, UserEntry(user_message))
          /\ AutoSaveOp("user", user_message, io)
          /\ lastIo' = io
          /\ snapshotIo' = io
    /\ final_text' = <<>>
    /\ iters' = 0
    /\ chatPc' = "request"
    /\ lastCall' = "chat_begin"
    /\ UNCHANGED <<raceVars, auxVars, stop_event, workerPc, workerJob, consLog, data, memFile, current_mode,
                   mode_history, session_id, tool_uses, tool_results,
                   mode_switch_announcement, returned, lastResult, lastRequest>>

\* where the caller is after an exception left chat(): main's "except Exception"
\* reports it and the input loop goes on
AfterApiErrorMutantExit == "exited"
AfterApiError == "idle"

\* client.messages.create raises: the exception leaves chat()
ApiError ==
    /\ chatPc = "request"
    /\ chatPc' = AfterApiError
    /\ lastRequest' = BuildApiParams
    /\ lastCall' = "api_error"
    /\ UNCHANGED <<raceVars, auxVars, clock, sessVars, permFiles, workerVars, lastIo, snapshotIo, saved, enqLog,
                   consLog, data, memFile, conversation, current_mode, mode_history,
                   session_id, iters, final_text, tool_uses, tool_results,
                   mode_switch_announcement, returned, lastResult>>

\* a response without tool invocations: append, auto-save, return final_text
ApiRespondFinal(responses, ios) ==
    /\ chatPc = "request"
    /\ clock + 2 <= MaxClock
    /\ \E response \in responses, io \in ios :
          LET text == NextFinalText(final_text, BlocksOfType(response, "text"))
          IN  /\ BlocksOfType(response, "tool_use") = <<>>
              /\ final_text' = text
              /\ conversation' = Append(conversation, AssistantEntry(response))
              /\ AutoSaveOp("assistant", text, io)
              /\ returned' = text
              /\ lastRequest' = BuildApiParams
              /\ lastIo' = io
              /\ snapshotIo' = io
    /\ iters' = iters + 1
    /\ chatPc' = "idle"
    /\ lastCall' = "chat_return"
    /\ UNCHANGED <<raceVars, auxVars, stop_event, workerPc, workerJob, consLog, data, memFile, current_mode,
                   mode_history, session_id, tool_uses, tool_results,
                   mode_switch_announcement, lastResult>>

\* a response with tool invocations: append it and start on the tools
ApiRespondTools(responses) ==
    /\ chatPc = "request"
    /\ iters < MaxIters
    /\ \E response \in responses :
          /\ BlocksOfType(response, "tool_use") # <<>>
          /\ final_text' = NextFinalText(final_text, BlocksOfType(response, "text"))
          /\ conversation' = Append(conversation, AssistantEntry(response))
          /\ tool_uses' = BlocksOfType(response, "tool_use")
    /\ lastRequest' = BuildApiParams
    /\ tool_results' = <<>>
    /\ mode_switch_announcement' = <<>>
    /\ iters' = iters + 1
    /\ chatPc' = "tools"
    /\ lastCall' = "api_respond"
    /\ UNCHANGED <<raceVars, auxVars, clock, sessVars, permFiles, workerVars, lastIo, snapshotIo, saved, enqLog,
                   consLog, data, memFile, current_mode, mode_history, session_id, returned,
                   lastResult>>

\* one pass of "for tool_block in tool_uses", with a run_shell whose output may
\* read like a signal when printing is TRUE; after the last tool the results go
\* to the transcript and the loop turns to the next completion request
ExecTool(printing) ==
    /\ chatPc = "tools"
    /\ tool_uses # <<>>
    /\ clock < MaxClock
    /\ \E b \in (IF printing THEN PrintingBehaviours(Head(tool_uses).name)
                            ELSE ToolBehaviours(Head(tool_uses).name)) :
          LET result == ExecuteTool(Head(tool_uses).name, b)
              sw == SwitchOf(result, current_mode)
              fed == IF sw.switch THEN Confirmation(sw.to) ELSE result
              results == Append(tool_results, ToolResult(Head(tool_uses), fed))
          IN  /\ lastResult' = result
              /\ lastTool' = [name |-> Head(tool_uses).name, raised |-> b.raises]
              /\ profileStore' = ProfileAfterTool(Head(tool_uses), b, profileStore)
              /\ data' = DataAfterTool(Head(tool_uses), b, data)
              /\ memFile' = IF data' = data THEN memFile ELSE Serialize(data')
              /\ rememberLog' =
                    IF Head(tool_uses).name = "remember" /\ ~b.raises
                    THEN Append(rememberLog, <<Head(tool_uses).input.key, Head(tool_uses).input.value>>)
                    ELSE rememberLog
              /\ current_mode' = IF sw.switch THEN sw.to ELSE current_mode
              /\ mode_history' =
                    IF sw.switch
                    THEN Append(mode_history, HistoryEntry(current_mode, sw.to, sw.reason, clock))
                    ELSE mode_history
              /\ clock' = IF sw.switch THEN clock + 1 ELSE clock
              /\ mode_switch_announcement' =
                    IF sw.switch THEN GetModeAnnouncement(sw.to, sw.reason)
                    ELSE mode_switch_announcement
              /\ tool_results' = results
              /\ tool_uses' = Tail(tool_uses)
              /\ IF Tail(tool_uses) = <<>>
                 THEN /\ conversation' = AppendToolResults(conversation, results)
                      /\ chatPc' = "request"
                 ELSE UNCHANGED <<conversation, chatPc>>
    /\ lastCall' = "exec_tool"
    /\ UNCHANGED <<raceVars, lastExtract, stopSnap, storeVars, lastRequest, sessVars, permFiles,
                   workerVars, lastIo, snapshotIo, saved, enqLog, consLog, session_id, iters,
                   final_text, returned>>

\* Brain.finalize_session
FinalizeSession ==
    /\ chatPc = "idle"
    /\ clock < MaxClock
    /\ \E io \in CommitOutcomes :
          /\ IF session_id # NoId
             THEN CommitOp(session_id, io)
             ELSE UNCHANGED <<sessVars, permFiles, clock>>
          /\ lastIo' = io
    /\ lastCall' = "finalize_session"
    /\ UNCHANGED <<workerVars, snapshotIo, saved, enqLog, consLog, data, memFile, brainVars, raceVars, auxVars>>

\* Brain.clear_conversation(), between two turns ("/clear")
ClearConversationMutantClearsSession ==
    /\ chatPc = "idle"
    /\ conversation' = <<>>
    /\ current_session_messages' = <<>>
    /\ message_count' = 0
    /\ lastCall' = "clear_conversation"
    /\ UNCHANGED <<clock, current_session_path, tempFile, permFiles, workerVars, lastIo, snapshotIo,
                   saved, enqLog, consLog, data, memFile, raceVars, auxVars,
                   current_mode, mode_history, session_id, chatPc, iters, final_text,
                   tool_uses, tool_results, mode_switch_announcement, returned, lastResult,
                   lastRequest>>
ClearConversation ==
    /\ chatPc = "idle"
    /\ conversation' = <<>>
    /\ lastCall' = "clear_conversation"
    /\ UNCHANGED <<clock, sessVars, permFiles, workerVars, lastIo, snapshotIo,
                   saved, enqLog, consLog, data, memFile, raceVars, auxVars,
                   current_mode, mode_history, session_id, chatPc, iters, final_text,
                   tool_uses, tool_results, mode_switch_announcement, returned, lastResult,
                   lastRequest>>

(* ------------------- concurrent writers of memory.json ------------------ *)

\* the foreground thread (the remember tool) and the FactExtractionWorker thread
Threads == {"fg", "wk"}

\* the file after a write of buf at offset 0 of a file object opened with "w":
\* the cells beyond the buffer's length stay as another writer left them
WriteAtStart(file, buf) == buf \o SubSeq(file, Len(buf) + 1, Len(file))

\* the (key, value) pairs the remember tool is called with in the model
ToolRemembers == { <<(<<"pet">>), "v1">>, <<(<<"name">>), "v1">> }

\* the entries an extraction returns in the model
ExtractedItems == { << <<(<<"user_", "job">>), "v2">> >>,
                    << <<(<<"pet">>), "v2">>, <<(<<"User_", "Name">>), "v2">> >> }

\* tools/memory_tools.remember -> Memory.remember: the assignment to self._data
FgRemember ==
    /\ writerPc["fg"] = "idle"
    /\ \E kv \in ToolRemembers : data' = Remember(data, kv[1], kv[2])
    /\ writerPc' = [writerPc EXCEPT !["fg"] = "save"]
    /\ lastCall' = "fg_remember"
    /\ UNCHANGED <<clock, sessVars, permFiles, workerVars, lastIo, snapshotIo, saved, enqLog,
                   consLog, memFile, brainVars, auxVars, writerBuf, wkItems, lastClosed>>

\* _extract_facts has parsed the response: the entries to merge
WkExtracted ==
    /\ writerPc["wk"] = "idle"
    /\ wkItems = <<>>
    /\ \E items \in ExtractedItems : wkItems' = items
    /\ lastCall' = "wk_extracted"
    /\ UNCHANGED <<clock, sessVars, permFiles, workerVars, lastIo, snapshotIo, saved, enqLog,
                   consLog, data, memFile, brainVars, auxVars, writerPc, writerBuf, lastClosed>>

\* self._memory_ref.remember(key, value) for the next entry: the assignment
WkRemember ==
    /\ writerPc["wk"] = "idle"
    /\ wkItems # <<>>
    /\ data' = Remember(data, Head(wkItems)[1], Head(wkItems)[2])
    /\ wkItems' = Tail(wkItems)
    /\ writerPc' = [writerPc EXCEPT !["wk"] = "save"]
    /\ lastCall' = "wk_remember"
    /\ UNCHANGED <<clock, sessVars, permFiles, workerVars, lastIo, snapshotIo, saved, enqLog,
                   consLog, memFile, brainVars, auxVars, writerBuf, lastClosed>>

\* Memory._save: open(self._path, "w") truncates the file
SaveOpen(w) ==
    /\ writerPc[w] = "save"
    /\ memFile' = <<>>
    /\ writerBuf' = [writerBuf EXCEPT ![w] = <<>>]
    /\ writerPc' = [writerPc EXCEPT ![w] = "opened"]
    /\ lastCall' = "save_open"
    /\ UNCHANGED <<clock, sessVars, permFiles, workerVars, lastIo, snapshotIo, saved, enqLog,
                   consLog, data, brainVars, auxVars, wkItems, lastClosed>>

\* Memory._save: json.dump(self._data, f) fills the file object's buffer
SaveDump(w) ==
    /\ writerPc[w] = "opened"
    /\ writerBuf' = [writerBuf EXCEPT ![w] = Serialize(data)]
    /\ writerPc' = [writerPc EXCEPT ![w] = "dumped"]
    /\ lastCall' = "save_dump"
    /\ UNCHANGED <<clock, sessVars, permFiles, workerVars, lastIo, snapshotIo, saved, enqLog,
                   consLog, data, memFile, brainVars, auxVars, wkItems, lastClosed>>

\* Memory._save: leaving the with block flushes the buffer and closes the file
SaveClose(w) ==
    /\ writerPc[w] = "dumped"
    /\ memFile' = WriteAtStart(memFile, writerBuf[w])
    /\ lastClosed' = writerBuf[w]
    /\ writerPc' = [writerPc EXCEPT ![w] = "idle"]
    /\ lastCall' = "save_close"
    /\ UNCHANGED <<clock, sessVars, permFiles, workerVars, lastIo, snapshotIo, saved, enqLog,
                   consLog, data, brainVars, auxVars, writerBuf, wkItems>>

(* --------------------------- VoiceController ---------------------------- *)
(* Three kinds of thread drive the controller: the recognizer's thread that  *)
(* delivers wake events, the transcription threads _handle_wake_event        *)
(* starts, and the menu's thread (text input, start/stop listening, clear).  *)
(* brain.chat() is the interval between its call and its return; what it     *)
(* does to the Brain is the subject of the Brain section.                    *)

VoiceThreads == 1 .. MaxVoiceThreads

\* what transcribe_audio may return, and what the text field may hold
VoiceTexts == { <<>>, <<" ">>, <<"hello">> }

\* not text or not text.strip()
IsBlank(text) == \A i \in 1 .. Len(text) : text[i] = " "

\* everything a VoiceController step leaves alone
besideVoice ==
    <<clock, sessVars, permFiles, workerVars, lastIo, snapshotIo, saved, enqLog, consLog,
      data, memFile, brainVars, raceVars, lastExtract, stopSnap, profileStore, rememberLog,
      lastTool, noteLog, summaryLog, max_summaries, crashSaved, isEmptyResult, summaryLines>>

\* the Brain.chat() calls in progress: those of the transcription threads and
\* that of the menu's thread
ChatsInProgress ==
    Cardinality({ t \in VoiceThreads : voicePc[t] = "chat" }) + (IF textPc = "chat" THEN 1 ELSE 0)

\* VoiceController.start_listening: the detector starts unless it listens already
StartListening ==
    /\ textPc = "idle"
    /\ is_listening' = TRUE
    /\ uiState' = "idle"
    /\ lastCall' = "start_listening"
    /\ UNCHANGED <<besideVoice, is_processing, cancel_transcription, current_input_mode, wakePc,
                   voicePc, voiceInput, textPc>>

\* VoiceController.stop_listening: the detector stops, the cancel event is set
StopListening ==
    /\ textPc = "idle"
    /\ is_listening' = FALSE
    /\ cancel_transcription' = TRUE
    /\ uiState' = "idle"
    /\ lastCall' = "stop_listening"
    /\ UNCHANGED <<besideVoice, is_processing, current_input_mode, wakePc, voicePc, voiceInput,
                   textPc>>

\* _handle_wake_event, the part under _state_lock: the event is ignored while
\* the flag is set, otherwise the flag is set
WakeEvent ==
    /\ is_listening
    /\ wakePc = "idle"
    /\ IF is_processing
       THEN /\ lastCall' = "wake_ignored"
            /\ UNCHANGED <<is_processing, wakePc>>
       ELSE /\ is_processing' = TRUE
            /\ wakePc' = "accepted"
            /\ lastCall' = "wake_accepted"
    /\ UNCHANGED <<besideVoice, cancel_transcription, current_input_mode, is_listening, voicePc,
                   voiceInput, textPc, uiState>>

\* _handle_wake_event after the lock: state "listening", the cancel event is
\* cleared and a transcription thread is started
WakeStart ==
    /\ wakePc = "accepted"
    /\ \E t \in VoiceThreads :
          /\ voicePc[t] = "none"
          /\ voicePc' = [voicePc EXCEPT ![t] = "asr"]
          /\ voiceInput' = [voiceInput EXCEPT ![t] = <<>>]
    /\ uiState' = "listening"
    /\ cancel_transcription' = FALSE
    /\ wakePc' = "idle"
    /\ lastCall' = "wake_start"
    /\ UNCHANGED <<besideVoice, is_processing, current_input_mode, is_listening, textPc>>

\* how high_precision_asr.transcribe_audio may end
AsrOutcomes == {"returns", "cancelled", "timeout", "error"}

\* transcribe_audio ends in thread t: it returns a text, or it raises and the
\* matching except clause of _transcribe_with_timeout resets the flag; it raises
\* TranscriptionCancelledError only when it saw the cancel event set
Transcribe(t) ==
    /\ voicePc[t] = "asr"
    /\ \E outcome \in AsrOutcomes, text \in VoiceTexts :
          /\ outcome = "cancelled" => cancel_transcription
          /\ outcome # "returns" => text = <<>>
          /\ IF outcome = "returns"
             THEN /\ voicePc' = [voicePc EXCEPT ![t] = "returned"]
                  /\ voiceInput' = [voiceInput EXCEPT ![t] = text]
                  /\ UNCHANGED <<is_processing, uiState>>
             ELSE /\ voicePc' = [voicePc EXCEPT ![t] = "none"]
                  /\ voiceInput' = voiceInput
                  /\ is_processing' = FALSE
                  /\ uiState' = CASE outcome = "timeout" -> "idle"
                                  [] outcome = "error" -> "error"
                                  [] OTHER -> uiState
    /\ lastCall' = "transcribe"
    /\ UNCHANGED <<besideVoice, cancel_transcription, current_input_mode, is_listening, wakePc,
                   textPc>>

\* _transcribe_with_timeout after transcribe_audio returned: return if the
\* cancel event is set; _process_input up to the call of brain.chat() for a text
\* that is not blank; back to idle, the flag reset, for a blank one
VoiceCheck(t) ==
    /\ voicePc[t] = "returned"
    /\ IF cancel_transcription
       THEN /\ voicePc' = [voicePc EXCEPT ![t] = "none"]
            /\ UNCHANGED <<is_processing, current_input_mode, uiState>>
       ELSE IF ~IsBlank(voiceInput[t])
       THEN /\ voicePc' = [voicePc EXCEPT ![t] = "chat"]
            /\ current_input_mode' = "voice"
            /\ uiState' = "thinking"
            /\ UNCHANGED is_processing
       ELSE /\ voicePc' = [voicePc EXCEPT ![t] = "none"]
            /\ uiState' = "idle"
            /\ is_processing' = FALSE
            /\ UNCHANGED current_input_mode
    /\ lastCall' = "voice_check"
    /\ UNCHANGED <<besideVoice, cancel_transcription, is_listening, wakePc, voiceInput, textPc>>

\* the "finally" of _process_input, under _state_lock
ProcessFinally ==
    /\ is_processing' = FALSE
    /\ current_input_mode' = "none"

\* brain.chat() ends in thread t (mode "voice"): it returns and the response is
\* about to be spoken, or it raises and _process_input ends
VoiceChatDone(t) ==
    /\ voicePc[t] = "chat"
    /\ \E raises \in BOOLEAN :
          IF raises
          THEN /\ uiState' = "error"
               /\ ProcessFinally
               /\ voicePc' = [voicePc EXCEPT ![t] = "none"]
          ELSE /\ uiState' = "speaking"
               /\ voicePc' = [voicePc EXCEPT ![t] = "speak"]
               /\ UNCHANGED <<is_processing, current_input_mode>>
    /\ lastCall' = "voice_chat_done"
    /\ UNCHANGED <<besideVoice, cancel_transcription, is_listening, wakePc, voiceInput, textPc>>

\* tts_stub.speak() ends in thread t, and _process_input with it
SpeakDone(t) ==
    /\ voicePc[t] = "speak"
    /\ \E raises \in BOOLEAN : uiState' = IF raises THEN "error" ELSE "idle"
    /\ ProcessFinally
    /\ voicePc' = [voicePc EXCEPT ![t] = "none"]
    /\ lastCall' = "speak_done"
    /\ UNCHANGED <<besideVoice, cancel_transcription, is_listening, wakePc, voiceInput, textPc>>

\* process_text_input(text) up to the call of brain.chat(): nothing for a blank
\* text; otherwise the cancel event is set and _process_input begins
TextInput ==
    /\ textPc = "idle"
    /\ \E text \in VoiceTexts :
          IF IsBlank(text)
          THEN UNCHANGED <<cancel_transcription, current_input_mode, uiState, textPc>>
          ELSE /\ cancel_transcription' = TRUE
               /\ current_input_mode' = "text"
               /\ uiState' = "thinking"
               /\ textPc' = "chat"
    /\ lastCall' = "text_input"
    /\ UNCHANGED <<besideVoice, is_processing, is_listening, wakePc, voicePc, voiceInput>>

\* brain.chat() ends on the menu's thread (mode "text"), and _process_input with it
TextChatDone ==
    /\ textPc = "chat"
    /\ \E raises \in BOOLEAN : uiState' = IF raises THEN "error" ELSE "idle"
    /\ ProcessFinally
    /\ textPc' = "idle"
    /\ lastCall' = "text_chat_done"
    /\ UNCHANGED <<besideVoice, cancel_transcription, is_listening, wakePc, voicePc, voiceInput>>

(* --------------------------- specifications ----------------------------- *)

vars == <<clock, current_session_path, current_session_messages, message_count, tempFile,
          permFiles, queue, stop_event, workerPc, workerJob, lastCall, lastIo, snapshotIo, saved,
          enqLog, consLog, data, memFile, conversation, current_mode, mode_history, session_id,
          chatPc, iters, final_text, tool_uses, tool_results, mode_switch_announcement,
          returned, lastResult, writerPc, writerBuf, wkItems, lastClosed,
          lastExtract, stopSnap, profileStore, rememberLog, lastTool, lastRequest,
          noteLog, summaryLog, max_summaries, crashSaved, isEmptyResult, summaryLines,
          is_processing, cancel_transcription, current_input_mode, is_listening, wakePc,
          voicePc, voiceInput, textPc, uiState>>

\* Memory.__init__ and Brain.__init__ on an empty data directory, the worker thread started
Init ==
    /\ clock = 0
    /\ current_session_path = FALSE
    /\ current_session_messages = <<>>
    /\ message_count = 0
    /\ tempFile = NoTemp
    /\ permFiles = [i \in SessionIds |-> NoPerm]
    /\ queue = <<>>
    /\ stop_event = FALSE
    /\ workerPc = "check"
    /\ workerJob = <<>>
    /\ lastCall = "init"
    /\ lastIo = "ok"
    /\ snapshotIo = "ok"
    /\ saved = <<>>
    /\ enqLog = <<>>
    /\ consLog = <<>>
    /\ data = EmptyData
    /\ memFile = <<>>
    /\ conversation = <<>>
    /\ current_mode = "buddy"
    /\ mode_history = <<>>
    /\ session_id = NoId
    /\ chatPc = "idle"
    /\ iters = 0
    /\ final_text = <<>>
    /\ tool_uses = <<>>
    /\ tool_results = <<>>
    /\ mode_switch_announcement = <<>>
    /\ returned = <<>>
    /\ lastResult = <<>>
    /\ writerPc = [w \in Threads |-> "idle"]
    /\ writerBuf = [w \in Threads |-> <<>>]
    /\ wkItems = <<>>
    /\ lastClosed = <<>>
    /\ lastExtract = NoExtract
    /\ stopSnap = "none"
    /\ profileStore = EmptyProfile
    /\ lastRequest = NoRequest
    /\ noteLog = <<>>
    /\ summaryLog = <<>>
    /\ max_summaries = NoId
    /\ crashSaved = <<>>
    /\ isEmptyResult = TRUE
    /\ summaryLines = <<>>
    /\ is_processing = FALSE
    /\ cancel_transcription = FALSE
    /\ current_input_mode = "none"
    /\ is_listening = FALSE
    /\ wakePc = "idle"
    /\ voicePc = [t \in VoiceThreads |-> "none"]
    /\ voiceInput = [t \in VoiceThreads |-> <<>>]
    /\ textPc = "idle"
    /\ uiState = "idle"
    /\ rememberLog = <<>>
    /\ lastTool = [name |-> "", raised |-> FALSE]

\* the session manager under direct calls
NextSession ==
    \/ Tick(MaxClock)
    \/ StartSession(MaxClock)
    \/ AutoSaveMessage(MaxMsgs, MaxClock, Roles)
    \/ CommitSession(MaxClock)

SpecSession == Init /\ [][NextSession]_vars

\* the conversation engine over the session manager
Next ==
    \/ Tick(MaxClock)
    \/ MainStart
    \/ ChatBegin(WriteOutcomes, MaxClock)
    \/ ApiError
    \/ ApiRespondFinal(PlainResponses, WriteOutcomes)
    \/ FinalizeSession
    \/ ClearConversation

Spec == Init /\ [][Next]_vars

\* the tool-invocation loop of chat(), the snapshot writes succeeding
NextChat ==
    \/ ChatBegin({"ok"}, MaxChatClock)
    \/ ApiError
    \/ ApiRespondFinal(Responses, {"ok"})
    \/ ApiRespondTools(Responses \cup ProfileResponses)
    \/ ExecTool(FALSE)

SpecChat == Init /\ [][NextChat]_vars

\* the summaries list of the memory record
NextSummaries ==
    \/ AddConversationSummary
    \/ UpdatePersonal

SpecSummaries == Init /\ [][NextSummaries]_vars

\* the session manager with one stop and restart of the process
NextCrash ==
    \/ StartSession(MaxClock)
    \/ AutoSaveMessage(MaxMsgs, MaxClock, {"user"})
    \/ CommitSession(MaxClock)
    \/ Crash
    \/ CrashInAutoSave

SpecCrash == Init /\ [][NextCrash]_vars

\* the transcript under chat() and clear_conversation()
NextTranscript ==
    \/ ChatBegin({"ok"}, MaxChatClock)
    \/ ApiError
    \/ ApiRespondFinal(PlainResponses, {"ok"})
    \/ ApiRespondTools(ModeResponses)
    \/ ExecTool(TRUE)
    \/ ClearConversation

SpecTranscript == Init /\ [][NextTranscript]_vars

\* the worker beside a foreground thread that saves, commits and starts sessions
NextSnapshot ==
    \/ StartSession(MaxClock)
    \/ AutoSaveMessage(MaxLongMsgs, MaxClock, {"user"})
    \/ CommitSession(MaxClock)
    \/ WorkerCheck
    \/ WorkerGet
    \/ WorkerEmpty
    \/ WorkerExtract(PlainOutcomes)

SpecSnapshot == Init /\ [][NextSnapshot]_vars

\* the two threads that rewrite memory.json
NextRace ==
    \/ FgRemember
    \/ WkExtracted
    \/ WkRemember
    \/ \E w \in Threads : SaveOpen(w)
    \/ \E w \in Threads : SaveDump(w)
    \/ \E w \in Threads : SaveClose(w)

SpecRace == Init /\ [][NextRace]_vars

\* long sessions and the worker that consumes their extraction jobs
NextExtract ==
    \/ StartSession(MaxLongClock)
    \/ AutoSaveMessage(MaxLongMsgs, MaxLongClock, {"user"})
    \/ WorkerCheck
    \/ WorkerGet
    \/ WorkerEmpty
    \/ WorkerExtract(PlainOutcomes)
    \/ StopWorker

SpecExtract == Init /\ [][NextExtract]_vars

\* the MemoryRecord under remember() calls
NextRemember == RememberCall

SpecRemember == Init /\ [][NextRemember]_vars

\* the UserProfile store under the calls of its methods
NextProfile ==
    \/ UpdatePersonal
    \/ AddInterest
    \/ RemoveInterest
    \/ AddPet
    \/ UpdateFamily
    \/ AddProject
    \/ UpdatePreference
    \/ AddGoal
    \/ AddTech
    \/ AddDate
    \/ AddNote(MaxEntries)
    \/ ProfileIsEmpty

SpecProfile == Init /\ [][NextProfile]_vars

\* the compact summary of the profile for the system prompt
NextHints ==
    \/ UpdatePersonal
    \/ AddInterest
    \/ AddPet
    \/ AddProject
    \/ UpdatePreference
    \/ AddTech
    \/ AddDate
    \/ AddNote(MaxEntries)
    \/ ProfileSummary

SpecHints == Init /\ [][NextHints]_vars

\* the notes list under a long run of add_note() calls
NextNotes ==
    \/ AddNote(MaxNotes)
    \/ UpdatePersonal
    \/ ProfileIsEmpty

SpecNotes == Init /\ [][NextNotes]_vars

\* the worker with every outcome of an extraction, beside a foreground that
\* keeps saving messages and updates the user profile
NextWorker ==
    \/ AutoSaveMessage(MaxLongMsgs, MaxLongClock, {"user"})
    \/ UpdatePersonal
    \/ WorkerCheck
    \/ WorkerGet
    \/ WorkerEmpty
    \/ WorkerExtract(ExtractOutcomes)
    \/ StopWorker

SpecWorker == Init /\ [][NextWorker]_vars

\* the worker is a thread of its own: each step of its loop that can be taken
\* is taken in the end (queue.get returns within its timeout, the completion
\* call within the client's timeout)
SpecWorkerFair ==
    /\ SpecWorker
    /\ WF_vars(WorkerCheck)
    /\ WF_vars(WorkerGet)
    /\ WF_vars(WorkerEmpty)
    /\ WF_vars(WorkerExtract(ExtractOutcomes))


\* the voice controller under wake events, text input and the menu's switches
NextVoice ==
    \/ StartListening
    \/ StopListening
    \/ WakeEvent
    \/ WakeStart
    \/ \E t \in VoiceThreads : Transcribe(t)
    \/ \E t \in VoiceThreads : VoiceCheck(t)
    \/ \E t \in VoiceThreads : VoiceChatDone(t)
    \/ \E t \in VoiceThreads : SpeakDone(t)
    \/ TextInput
    \/ TextChatDone

SpecVoice == Init /\ [][NextVoice]_vars

\* the same, where every thread that can take its next step takes it in the end:
\* transcribe_audio ends within its timeout, brain.chat() and speak() return or
\* raise; wake events, text input and the menu's switches may never come
SpecVoiceFair ==
    /\ SpecVoice
    /\ WF_vars(WakeStart)
    /\ WF_vars(TextChatDone)
    /\ \A t \in VoiceThreads :
          /\ WF_vars(Transcribe(t))
          /\ WF_vars(VoiceCheck(t))
          /\ WF_vars(VoiceChatDone(t))
          /\ WF_vars(SpeakDone(t))

(* ------------------------------- claims --------------------------------- *)

\* timestamps grow along the list: the messages are in the order they were saved
InSavedOrder(msgs) ==
    \A i \in 1 .. Len(msgs) - 1 : msgs[i].timestamp < msgs[i + 1].timestamp

\* the step is a commit_session whose file operations all succeeded, and it wrote
\* one permanent record holding the messages saved since start_session and
\* removed the temp file
CommitWroteOneRecord ==
    /\ \E sid \in SessionIds :
          /\ permFiles'[sid].exists /\ permFiles'[sid].complete
          /\ permFiles'[sid].session_id = sid
          /\ ArgsOf(permFiles'[sid].messages) = saved
          /\ InSavedOrder(permFiles'[sid].messages)
          /\ permFiles'[sid].message_count = Len(saved)
          /\ \A o \in SessionIds \ {sid} : permFiles'[o] = permFiles[o]
    /\ ~tempFile'.exists

\* C1 as stated (for any N, N = 0 included): in a session opened by
\* start_session, a commit_session whose writes succeed produces exactly one
\* permanent record with the N saved messages in order, and the temp file is gone.
C1_RoundTripAnyN ==
    [][ (lastCall' = "commit_session" /\ lastIo' = "ok" /\ current_session_path)
            => CommitWroteOneRecord ]_vars

\* C1 as amended: the same for N >= 1; with N = 0 commit_session writes nothing.
C1_RoundTrip ==
    [][ (lastCall' = "commit_session" /\ lastIo' = "ok" /\ current_session_path)
            => IF saved # <<>>
               THEN CommitWroteOneRecord
               ELSE permFiles' = permFiles /\ tempFile' = tempFile ]_vars

C1_Witness ==
    /\ lastCall = "commit_session" /\ lastIo = "ok"
    /\ Len(saved) = 2 /\ saved[1] # saved[2]
    /\ \E sid \in SessionIds : ArgsOf(permFiles[sid].messages) = saved
    /\ ~tempFile.exists /\ ~current_session_path

C3_ExtractionScheduling ==
    [][ LET grew == Len(queue') > Len(queue)
            n == Len(current_session_messages')
        IN  /\ grew <=> (lastCall' = "auto_save_message"
                            /\ message_count' % 5 = 0 /\ message_count' > 0)
            /\ grew => /\ Len(queue') = Len(queue) + 1
                       /\ SubSeq(queue', 1, Len(queue)) = queue
                       /\ Len(queue'[Len(queue')]) = 5
                       /\ \A i \in 1 .. 5 :
                             queue'[Len(queue')][i] = current_session_messages'[n - 5 + i] ]_vars

C3_Witness ==
    /\ lastCall = "auto_save_message" /\ message_count = 10
    /\ Len(enqLog) = 2 /\ enqLog[1] # enqLog[2]
    /\ queue # <<>> /\ queue[Len(queue)] = SubSeq(current_session_messages, 6, 10)

\* the reasons a switch_mode call may give: none, one word, words with a colon
C4_Reasons == { <<>>, <<"why">>, <<"deep", ":", "dive">> }

\* C4: a tool step whose result is MODE_SWITCH:<m>:<reason>, m a known mode other
\* than the current one, sets the mode to m, appends exactly one mode_history
\* entry {from: old mode, to: m, reason}, makes an announcement that contains
\* the new mode's name, and feeds "Mode switched to <m>" back for that invocation.
C4_ModeSwitch ==
    [][ \A m \in Modes, reason \in C4_Reasons :
          (lastCall' = "exec_tool" /\ lastResult' = Sentinel(m, reason) /\ m # current_mode)
            => /\ current_mode' = m
               /\ Len(mode_history') = Len(mode_history) + 1
               /\ SubSeq(mode_history', 1, Len(mode_history)) = mode_history
               /\ LET e == mode_history'[Len(mode_history')]
                  IN  e.from = current_mode /\ e.to = m /\ e.reason = reason
               /\ \E i \in 1 .. Len(mode_switch_announcement') :
                     mode_switch_announcement'[i] =
                        (IF m = "research" THEN "Research Mode" ELSE "Buddy Mode")
               /\ LET r == tool_results'[Len(tool_results')]
                  IN  /\ r.tool_use_id = Head(tool_uses).id
                      /\ r.content = <<"Mode switched to ", m>>
                      /\ r.content # lastResult' ]_vars

C4_Witness ==
    /\ lastCall = "exec_tool"
    /\ lastResult = Sentinel("research", <<"deep", ":", "dive">>)
    /\ current_mode = "research"
    /\ Len(mode_history) = 1
    /\ mode_history[1].from = "buddy" /\ mode_history[1].reason = <<"deep", ":", "dive">>

\* the ids of the tool invocations of a transcript entry, in order
C5_UseIds(entry) ==
    LET uses == BlocksOfType(entry.blocks, "tool_use")
    IN  [j \in 1 .. Len(uses) |-> uses[j].id]

\* C5: every assistant entry of the transcript that holds tool invocations is
\* either the last entry while the tools are being executed (no completion
\* request is made then), or is followed by exactly one user entry of
\* tool_result blocks, one per invocation, in invocation order, with its id.
C5_ToolResults ==
    \A i \in 1 .. Len(conversation) :
       (conversation[i].role = "assistant" /\ C5_UseIds(conversation[i]) # <<>>)
         => IF i = Len(conversation)
            THEN chatPc = "tools"
            ELSE /\ conversation[i + 1].role = "user"
                 /\ conversation[i + 1].kind = "tool_results"
                 /\ Len(conversation[i + 1].results) = Len(C5_UseIds(conversation[i]))
                 /\ \A j \in 1 .. Len(conversation[i + 1].results) :
                       /\ conversation[i + 1].results[j].type = "tool_result"
                       /\ conversation[i + 1].results[j].tool_use_id = C5_UseIds(conversation[i])[j]
                 /\ i + 2 <= Len(conversation) => conversation[i + 2].kind # "tool_results"

C5_Witness ==
    /\ chatPc = "request"
    /\ Len(conversation) >= 3
    /\ C5_UseIds(conversation[Len(conversation) - 1]) = <<"a", "b">>
    /\ Len(conversation[Len(conversation)].results) = 2
    /\ conversation[Len(conversation)].results[1].content # conversation[Len(conversation)].results[2].content

\* C6 as stated: what chat() returns, and the assistant message it auto-saves, is
\* the join of the text blocks of the response that ended the loop.
C6_ReturnsLastResponseText ==
    lastCall = "chat_return"
        => LET text == JoinText(BlocksOfType(conversation[Len(conversation)].blocks, "text"))
               msg == current_session_messages[Len(current_session_messages)]
           IN  returned = text /\ msg.role = "assistant" /\ msg.content = text

\* s is a prefix of t
IsPrefix(s, t) == Len(s) <= Len(t) /\ SubSeq(t, 1, Len(s)) = s

\* C7 as stated: a finalize_session whose file operations succeed, called while
\* the session holds auto-saved messages, leaves them in a permanent record and
\* leaves no uncommitted message.
C7_FinalizeCommits ==
    [][ (lastCall' = "finalize_session" /\ lastIo' = "ok" /\ current_session_messages # <<>>)
            => /\ current_session_messages' = <<>>
               /\ \E sid \in SessionIds :
                     /\ permFiles'[sid].complete
                     /\ permFiles'[sid].messages = current_session_messages ]_vars

\* C8 as stated: no step changes or removes the complete permanent record of a
\* session committed earlier (a record whose messages are not those of the
\* session being committed).
C8_NoOverwrite ==
    [][ \A sid \in SessionIds :
          (permFiles[sid].complete /\ ~IsPrefix(permFiles[sid].messages, current_session_messages))
            => permFiles'[sid] = permFiles[sid] ]_vars

\* C10 as stated: when no write of memory.json is in progress, the file holds
\* exactly the complete record dumped by the _save() that finished last.
C10_LastWriterWins ==
    (\A w \in Threads : writerPc[w] = "idle") /\ lastClosed # <<>>
        => memFile = lastClosed

C11_NeverBlocks ==
    /\ []( (clock + 2 <= MaxLongClock /\ Len(current_session_messages) < MaxLongMsgs)
             => ENABLED AutoSaveMessage(MaxLongMsgs, MaxLongClock, {"user"}) )
    /\ [][ lastCall' = "auto_save_message"
             => /\ workerPc' = workerPc /\ workerJob' = workerJob /\ consLog' = consLog
                /\ data' = data /\ memFile' = memFile
                /\ SubSeq(queue', 1, Len(queue)) = queue ]_vars

C11_Witness ==
    /\ lastCall = "auto_save_message" /\ message_count = 10
    /\ workerPc = "extract" /\ workerJob = enqLog[1]
    /\ queue = <<enqLog[2]>>

\* C12: a commit_session whose write of the permanent record fails returns
\* with the message list, message_count and the open-session marker as they
\* were; and a commit_session that succeeds right after such a failure writes
\* a complete record holding all the messages of the session.
C12_CommitFailureKeepsState ==
    [][ /\ (/\ lastCall' = "commit_session" /\ lastIo' \in {"open_fails", "dump_fails"}
            /\ current_session_messages # <<>>)
            => /\ current_session_messages' = current_session_messages
               /\ message_count' = message_count
               /\ current_session_path' = current_session_path
        /\ (/\ lastCall = "commit_session" /\ lastIo \in {"open_fails", "dump_fails"}
            /\ current_session_messages # <<>>
            /\ lastCall' = "commit_session" /\ lastIo' = "ok")
            => /\ ArgsOf(current_session_messages) = saved
               /\ \E sid \in SessionIds :
                     /\ permFiles'[sid].complete
                     /\ permFiles'[sid].messages = current_session_messages
                     /\ permFiles'[sid].message_count = Len(saved)
               /\ current_session_messages' = <<>> ]_vars

C12_Witness ==
    /\ lastCall = "commit_session" /\ lastIo = "dump_fails"
    /\ Len(current_session_messages) = 2 /\ message_count = 2 /\ current_session_path
    /\ \E sid \in SessionIds : permFiles[sid] = TornPerm

\* C13: an auto_save_message whose snapshot write fails still returns, with the
\* message appended to the session, message_count one higher, and a job of the
\* last 5 messages enqueued exactly when the new count is a positive multiple of 5.
C13_SnapshotFailureTolerated ==
    [][ (lastCall' = "auto_save_message" /\ lastIo' # "ok")
          => LET base == IF current_session_path THEN current_session_messages ELSE <<>>
                 n0 == IF current_session_path THEN message_count ELSE 0
                 n == Len(current_session_messages')
             IN  /\ n = Len(base) + 1
                 /\ SubSeq(current_session_messages', 1, Len(base)) = base
                 /\ Arg(current_session_messages'[n].role, current_session_messages'[n].content)
                        = saved'[Len(saved')]
                 /\ message_count' = n0 + 1
                 /\ IF message_count' % 5 = 0
                    THEN queue' = Append(queue, SubSeq(current_session_messages', n - 4, n))
                    ELSE queue' = queue ]_vars

C13_Witness ==
    /\ lastCall = "auto_save_message" /\ lastIo = "dump_fails"
    /\ message_count = 5 /\ Len(current_session_messages) = 5
    /\ enqLog = <<current_session_messages>>
    /\ ~tempFile.complete

\* C14: a tool step whose invocation raises or names an unknown tool yields a
\* result beginning with "Error", appended as the tool_result of that
\* invocation; the other invocations of the response stay to be executed (and
\* can be), and after the last one the results go to the transcript and the
\* loop is at its next completion request.
C14_ToolErrorsFedBack ==
    /\ []( (chatPc = "tools" /\ tool_uses # <<>> /\ clock < MaxClock) => ENABLED ExecTool(FALSE) )
    /\ [][ (lastCall' = "exec_tool"
              /\ (lastTool'.raised
                    \/ lastTool'.name \notin {"switch_mode", "run_shell", "update_profile_personal",
                                              "add_profile_interest", "remember"}))
            => /\ lastTool'.name = Head(tool_uses).name
               /\ Head(lastResult') = "Error"
               /\ tool_results' = Append(tool_results,
                      [type |-> "tool_result", tool_use_id |-> Head(tool_uses).id,
                       content |-> lastResult'])
               /\ tool_uses' = Tail(tool_uses)
               /\ IF tool_uses' # <<>>
                  THEN chatPc' = "tools" /\ conversation' = conversation
                  ELSE /\ chatPc' = "request"
                       /\ Len(conversation') = Len(conversation) + 1
                       /\ conversation'[Len(conversation')].results = tool_results' ]_vars

C14_Witness ==
    /\ chatPc = "request" /\ lastCall = "exec_tool"
    /\ LET results == conversation[Len(conversation)].results
       IN  /\ Len(results) = 2
           /\ results[1].content = <<"Error", ": Unknown tool ", "no_such_tool">>
           /\ results[2].content = <<"Error", " executing ", "run_shell">>

\* C15: a completion-service error ends the chat() call without a return value
\* and without touching the transcript or the session, and leaves the caller in
\* its input loop, where a further chat() call can be made (within the horizon
\* of the model).
C15_ApiErrorPropagates ==
    /\ []( (chatPc = "idle" /\ clock + 2 <= MaxClock /\ Len(current_session_messages) < MaxMsgs)
             => ENABLED ChatBegin(WriteOutcomes, MaxClock) )
    /\ [][ lastCall' = "api_error"
             => /\ chatPc = "request" /\ chatPc' = "idle"
                /\ returned' = returned
                /\ conversation' = conversation
                /\ current_session_messages' = current_session_messages ]_vars

C15_Witness ==
    /\ lastCall = "chat_return" /\ returned = <<"t1">>
    /\ Len(conversation) = 3
    /\ conversation[1].role = "user" /\ conversation[2].role = "user"
    /\ conversation[3].role = "assistant"

\* the elements of a sequence
C16_Range(seq) == {seq[i] : i \in 1 .. Len(seq)}

\* C16: the step that ends an extraction whose completion call or JSON parse
\* failed changes neither the stored record nor memory.json, puts nothing back
\* on the queue, and leaves the worker at the head of its loop; and no job the
\* worker takes has been taken before.
C16_FailedJobDropped ==
    [][ /\ (lastCall' = "worker_extract" /\ lastExtract'.kind \in {"api_fails", "parse_fails"})
            => /\ data' = data /\ memFile' = memFile
               /\ queue' = queue /\ workerJob \notin C16_Range(queue')
               /\ consLog' = consLog
               /\ workerPc' = "check" /\ stop_event' = stop_event
        /\ lastCall' = "worker_get"
            => /\ workerJob' \notin C16_Range(consLog)
               /\ workerJob' = Head(queue) ]_vars

C16_Witness ==
    /\ lastExtract.kind = "parse_fails" /\ data = EmptyData /\ memFile = <<>>
    /\ workerPc = "extract" /\ Len(consLog) = 2 /\ workerJob = consLog[2]
    /\ consLog[1] # consLog[2]

\* C17: once stop() has been called the worker terminates; the first test of
\* the flag after stop() ends the loop; stop() itself moves nothing of the
\* worker; and an extraction in flight when the flag is set ends as it would
\* have without stop(), its entries merged into the record.
C17_StopTerminates ==
    /\ stop_event ~> (workerPc = "stopped")
    /\ [][ /\ (stop_event /\ workerPc = "check") => workerPc' \in {"check", "stopped"}
           /\ lastCall' = "stop" => (workerPc' = workerPc /\ workerJob' = workerJob /\ queue' = queue)
           /\ (stop_event /\ workerPc = "extract" /\ workerPc' # "extract")
                => /\ lastCall' = "worker_extract" /\ workerPc' = "check"
                   /\ lastExtract'.kind = "ok"
                        => data' = RememberAll(data, lastExtract'.user_profile \o lastExtract'.facts) ]_vars

C17_Witness ==
    /\ workerPc = "stopped" /\ stopSnap = "extract"
    /\ lastExtract.kind = "ok" /\ lastExtract.user_profile # <<>>
    /\ Len(consLog) = 1
    /\ data = RememberAll(EmptyData, lastExtract.user_profile \o lastExtract.facts)
    /\ memFile = Serialize(data)

\* where remember's classification puts key: the bucket and the key used there
C20_Target(key) ==
    IF CleanKey(key) \in profile_keys \/ StartsWithUser(key)
    THEN [bucket |-> "user_profile", key |-> CleanKey(key)]
    ELSE [bucket |-> "facts", key |-> key]

\* C20: the step that ends a successful extraction puts every extracted entry
\* where remember's classification of its key puts it, whichever JSON section
\* it came from, leaves every other entry of the MemoryRecord as it was, and
\* changes neither the UserProfileRecord nor the session.
C20_MergeByKey ==
    [][ (lastCall' = "worker_extract" /\ lastExtract'.kind = "ok")
          => LET items == lastExtract'.user_profile \o lastExtract'.facts
                 targets == {C20_Target(items[i][1]) : i \in 1 .. Len(items)}
                 Keys(b) == {t.key : t \in {u \in targets : u.bucket = b}}
             IN  /\ \A i \in 1 .. Len(items) :
                       LET t == C20_Target(items[i][1])
                       IN  /\ t.key \in DOMAIN data'[t.bucket]
                           /\ data'[t.bucket][t.key] = items[i][2]
                 /\ \A b \in {"user_profile", "facts"} :
                       /\ DOMAIN data'[b] = DOMAIN data[b] \cup Keys(b)
                       /\ \A k \in DOMAIN data[b] \ Keys(b) : data'[b][k] = data[b][k]
                 /\ profileStore' = profileStore
                 /\ UNCHANGED <<sessVars, permFiles, conversation>> ]_vars

C20_Witness ==
    /\ lastCall = "worker_extract" /\ lastExtract.kind = "ok"
    /\ lastExtract.user_profile = << <<(<<"pet">>), "v1">> >>
    /\ <<"pet">> \in DOMAIN data.facts /\ data.facts[<<"pet">>] = "v1"
    /\ <<"name">> \in DOMAIN data.user_profile /\ data.user_profile[<<"name">>] = "v2"
    /\ <<"pet">> \notin DOMAIN data.user_profile
    /\ profileStore.personal # EmptyMap

\* the key as C18 normalizes it: lowercased, a leading user_ taken off
C18_Normalized(key) ==
    LET low == LowerKey(key)
    IN  IF low # <<>> /\ Head(low) = "user_" THEN Tail(low) ELSE low

\* C18 as stated: remember(key, value) puts the value in the profile bucket
\* under the normalized key exactly when the normalized key is a profile field
\* or the key as given starts with user_; otherwise it puts it in facts under
\* the key as given and leaves the profile bucket alone.
C18_Classification ==
    [][ lastCall' = "remember"
          => LET key == rememberLog'[Len(rememberLog')][1]
                 value == rememberLog'[Len(rememberLog')][2]
             IN  IF C18_Normalized(key) \in profile_keys \/ StartsWithUser(key)
                 THEN /\ data'.user_profile =
                            [x \in DOMAIN data.user_profile \cup {C18_Normalized(key)} |->
                                IF x = C18_Normalized(key) THEN value ELSE data.user_profile[x]]
                      /\ data'.facts = data.facts
                 ELSE /\ data'.facts =
                            [x \in DOMAIN data.facts \cup {key} |->
                                IF x = key THEN value ELSE data.facts[x]]
                      /\ data'.user_profile = data.user_profile ]_vars

\* C19: a remember(key, value) that follows a remember with the same key and
\* value changes neither the stored record nor memory.json.
C19_Idempotent ==
    [][ (/\ lastCall' = "remember" /\ Len(rememberLog) >= 1
         /\ rememberLog'[Len(rememberLog')] = rememberLog[Len(rememberLog)])
          => data' = data /\ memFile' = memFile ]_vars

C19_Witness ==
    /\ lastCall = "remember" /\ Len(rememberLog) = 2
    /\ rememberLog[1] = rememberLog[2]
    /\ rememberLog[1] = << <<"User_", "Name">>, "v2" >>
    /\ data.user_profile = (<<"name">> :> "v2") /\ data.facts = EmptyMap

\* C21: a commit_session called while the message list is empty writes or
\* changes no permanent record, leaves the temp file as it is, and leaves the
\* open-session marker, the message list and message_count unchanged.
C21_EmptyCommitNoOp ==
    [][ (lastCall' = "commit_session" /\ current_session_messages = <<>>)
          => /\ permFiles' = permFiles
             /\ tempFile' = tempFile
             /\ current_session_path' = current_session_path
             /\ current_session_messages' = <<>>
             /\ message_count' = message_count ]_vars

C21_Witness ==
    /\ lastCall = "commit_session"
    /\ current_session_messages = <<>> /\ current_session_path
    /\ tempFile.exists /\ tempFile.complete /\ Len(tempFile.messages) = 2
    /\ \A sid \in SessionIds : ~permFiles[sid].exists

\* C23: every auto_save_message raises message_count by exactly one, the count
\* is the number of messages of the session, and no step other than a
\* start_session or a commit_session lowers it (a commit_session that fails
\* leaves it as it is).
C23_CountMonotonic ==
    [][ /\ lastCall' = "auto_save_message"
            => /\ message_count' = message_count + 1
               /\ message_count' = Len(current_session_messages')
        /\ lastCall' \notin {"start_session", "commit_session"}
            => message_count' >= message_count
        /\ (lastCall' = "commit_session" /\ lastIo' # "ok")
            => message_count' = message_count ]_vars

C23_Witness ==
    /\ lastCall = "auto_save_message" /\ message_count = 3
    /\ Len(current_session_messages) = 3 /\ Len(saved) = 3
    /\ tempFile.complete /\ tempFile.message_count = 3

\* C24: what is_empty() returns is TRUE exactly when personal, interests, pets,
\* family, projects and goals are all empty, whatever tech_stack, preferences,
\* important_dates and notes hold.
C24_IsEmptyFields ==
    lastCall = "is_empty"
        => (isEmptyResult <=>
               \A f \in {"personal", "interests", "pets", "family", "projects", "goals"} :
                   profileStore[f] = <<>>)

C24_Witness ==
    /\ lastCall = "is_empty" /\ isEmptyResult
    /\ profileStore.tech_stack # <<>> /\ profileStore.preferences # <<>>
    /\ profileStore.important_dates # <<>> /\ profileStore.notes # <<>>

\* C28: the notes list never holds more than 50 entries, and it holds the most
\* recent notes add_note() was called with, in the order of the calls.
C28_NotesBounded ==
    LET n == Len(profileStore.notes)
        k == Len(noteLog)
    IN  /\ n <= 50
        /\ n = (IF k <= 50 THEN k ELSE 50)
        /\ \A i \in 1 .. n : profileStore.notes[i] = noteLog[k - n + i]

C28_Witness ==
    /\ Len(noteLog) = 52 /\ Len(profileStore.notes) = 50
    /\ profileStore.notes[1] = noteLog[3] /\ profileStore.notes[50] = noteLog[52]
    /\ noteLog[1] # noteLog[3]

\* C22: clear_conversation() empties the transcript of the Brain and leaves the
\* open session (message list, count, temp snapshot), the permanent records,
\* the memory record and the user profile as they were.
C22_ClearTouchesNoStore ==
    [][ lastCall' = "clear_conversation"
          => /\ conversation' = <<>>
             /\ current_session_messages' = current_session_messages
             /\ message_count' = message_count
             /\ tempFile' = tempFile
             /\ permFiles' = permFiles
             /\ data' = data /\ memFile' = memFile
             /\ profileStore' = profileStore ]_vars

C22_Witness ==
    /\ lastCall = "clear_conversation" /\ conversation = <<>>
    /\ Len(current_session_messages) = 2 /\ message_count = 2
    /\ tempFile.exists /\ tempFile.complete /\ Len(tempFile.messages) = 2

\* C26: every completion request of chat() is built from the mode that is
\* current when it is built: token budget and guidance text are that mode's,
\* and in Research it carries the reasoning budget 15000; so the request that
\* follows a mode switch inside the same chat() is already the new mode's.
C26_RequestFromCurrentMode ==
    [][ lastCall' \in {"api_error", "api_respond", "chat_return"}
          => /\ lastRequest'.max_tokens = 4096
             /\ lastRequest'.guidance =
                   (IF current_mode = "buddy" THEN "buddy guidance" ELSE "research guidance")
             /\ current_mode = "research"
                   => lastRequest'.thinking = [enabled |-> TRUE, budget_tokens |-> 15000]
             /\ lastRequest'.messages = conversation ]_vars

C26_Witness ==
    /\ lastCall = "chat_return" /\ iters = 2
    /\ Len(mode_history) = 1 /\ mode_history[1].to = "research"
    /\ Len(lastRequest.messages) = 3
    /\ lastRequest.guidance = "research guidance"
    /\ lastRequest.thinking.budget_tokens = 15000

\* the stores hold nothing: the six fields is_empty() looks at, and the profile
\* entries, facts and summaries of the memory record
C25_NothingStored ==
    /\ \A f \in {"personal", "interests", "pets", "family", "projects", "goals"} :
          profileStore[f] = <<>>
    /\ data.user_profile = <<>> /\ data.facts = <<>> /\ data.conversation_summaries = <<>>

\* C25: a request carries the first-meeting block exactly when the user profile
\* is empty and the memory record has no profile entries, facts or summaries;
\* once an entry is stored the stores stay non-empty, so no later request has it.
C25_FirstMeetingIffNew ==
    [][ /\ lastCall' \in {"api_error", "api_respond", "chat_return"}
            => lastRequest'.first_meeting = C25_NothingStored
        /\ ~C25_NothingStored => ~C25_NothingStored' ]_vars

C25_Witness ==
    /\ lastCall = "chat_return" /\ Len(lastRequest.messages) = 3
    /\ ~lastRequest.first_meeting
    /\ profileStore.interests = <<"chess">> /\ data = EmptyData

\* C27: when chat() returns after a response that invoked
\* update_profile_personal(field, value) and add_profile_interest(interest) and a
\* tool-free response, the profile has personal[field] = value and the interest.
C27_ProfileToolsApplied ==
    (lastCall = "chat_return" /\ Len(conversation) >= 3
        /\ conversation[Len(conversation) - 2].kind = "blocks")
    => \A i \in 1 .. Len(conversation[Len(conversation) - 2].blocks) :
          LET block == conversation[Len(conversation) - 2].blocks[i]
          IN  /\ (block.type = "tool_use" /\ block.name = "update_profile_personal")
                    => /\ block.input.field \in DOMAIN profileStore.personal
                       /\ profileStore.personal[block.input.field] = block.input.value
              /\ (block.type = "tool_use" /\ block.name = "add_profile_interest")
                    => \E k \in 1 .. Len(profileStore.interests) :
                          profileStore.interests[k] = block.input.interest

C27_Witness ==
    /\ lastCall = "chat_return" /\ Len(conversation) = 4
    /\ Len(conversation[2].blocks) = 2
    /\ conversation[2].blocks[1].name = "update_profile_personal"
    /\ conversation[2].blocks[2].name = "add_profile_interest"
    /\ conversation[3].kind = "tool_results" /\ Len(conversation[3].results) = 2
    /\ profileStore.personal[<<"name">>] = "v1" /\ profileStore.interests = <<"hiking">>

\* C29: after any sequence of add_conversation_summary() calls the list holds
\* at most the configured maximum of entries, and they are the most recently
\* added ones in insertion order.
C29_SummariesBounded ==
    max_summaries # NoId
        => LET n == Len(data.conversation_summaries)
               k == Len(summaryLog)
           IN  /\ n <= max_summaries
               /\ n = (IF k <= max_summaries THEN k ELSE max_summaries)
               /\ \A i \in 1 .. n : data.conversation_summaries[i] = summaryLog[k - n + i]

\* the same for a configured maximum of at least one
C29_BoundedWhenPositive == max_summaries = 0 \/ C29_SummariesBounded

C29_PositiveWitness ==
    /\ max_summaries = 50 /\ Len(summaryLog) = 52 /\ Len(data.conversation_summaries) = 50
    /\ data.conversation_summaries[1] = summaryLog[3]

\* message m is in a complete file of the durable store: the temp snapshot or
\* a permanent record
C30_Held(m) ==
    \/ /\ tempFile.exists /\ tempFile.complete
       /\ \E j \in 1 .. Len(tempFile.messages) : tempFile.messages[j] = m
    \/ \E sid \in SessionIds :
          /\ permFiles[sid].exists /\ permFiles[sid].complete
          /\ \E j \in 1 .. Len(permFiles[sid].messages) : permFiles[sid].messages[j] = m

\* C30: the messages auto-saved before the process stopped, and not committed,
\* are held in durable storage after the restart, and stay there while the
\* restarted process starts its session and auto-saves new messages.
C30_CrashRecoverable ==
    \A i \in 1 .. Len(crashSaved) : C30_Held(crashSaved[i])

\* C31: messages of the transcript are never changed or removed once appended:
\* every step of chat() leaves the transcript it found as a prefix of the one
\* it leaves, and the only step that shortens it is clear_conversation().
C31_TranscriptAppendOnly ==
    [][ IF lastCall' = "clear_conversation"
        THEN conversation' = <<>>
        ELSE /\ Len(conversation) <= Len(conversation')
             /\ \A i \in 1 .. Len(conversation) : conversation'[i] = conversation[i] ]_vars

C31_Witness ==
    /\ lastCall = "chat_return" /\ Len(conversation) = 4
    /\ conversation[1].role = "user" /\ conversation[1].kind = "text"
    /\ conversation[2].kind = "blocks" /\ conversation[3].kind = "tool_results"
    /\ conversation[4].kind = "blocks"

C33_HintWhenMoreStored ==
    lastCall = "get_system_prompt_summary"
        => (   (\E i \in 1 .. Len(summaryLines) : summaryLines[i].kind = "hint")
           <=> (\E f \in {"pets", "family", "goals", "preferences", "important_dates", "notes"} :
                   profileStore[f] # <<>>) )

\* C34: when the process stops inside auto_save_message(), the temp snapshot
\* file is a complete snapshot of the session's message list before the call
\* (the file as it was) or of the list after it; never empty or partly written.
C34_SnapshotAtomic ==
    [][ lastCall' = "crash_in_auto_save"
          => \/ tempFile' = tempFile /\ (tempFile.exists => tempFile.complete)
             \/ /\ tempFile'.exists /\ tempFile'.complete
                /\ tempFile'.message_count = Len(tempFile'.messages)
                /\ Len(tempFile'.messages) =
                      (IF current_session_path THEN Len(current_session_messages) ELSE 0) + 1
                /\ \A i \in 1 .. Len(tempFile'.messages) - 1 :
                      tempFile'.messages[i] = current_session_messages[i] ]_vars

\* C35: the current mode changes only through a switch_mode invocation: the
\* step of any other tool, whatever its result string, leaves current_mode and
\* mode_history as they were.
C35_OnlySwitchModeSwitches ==
    [][ (lastCall' = "exec_tool" /\ lastTool'.name # "switch_mode")
          => current_mode' = current_mode /\ mode_history' = mode_history ]_vars

\* mode_history is a chain from Buddy to the current mode, no entry a no-op
C36_Chain ==
    /\ \A i \in 1 .. Len(mode_history) :
          /\ mode_history[i].from # mode_history[i].to
          /\ mode_history[i].from = (IF i = 1 THEN "buddy" ELSE mode_history[i - 1].to)
    /\ current_mode = (IF mode_history = <<>> THEN "buddy"
                       ELSE mode_history[Len(mode_history)].to)

\* C36: mode_history is consistent with the current mode: every entry has from
\* different from to, each from is the previous to (Buddy first), the last to is
\* the current mode; a sentinel naming the current mode or an unknown mode adds
\* no entry and leaves the mode.
C36_HistoryConsistent ==
    /\ []C36_Chain
    /\ [][ (lastCall' = "exec_tool" /\ Len(lastResult') >= 3
              /\ lastResult'[1] = "MODE_SWITCH" /\ lastResult'[2] = ":"
              /\ lastResult'[3] \in {current_mode, "turbo"})
            => mode_history' = mode_history /\ current_mode' = current_mode ]_vars

C36_Witness ==
    /\ Len(mode_history) = 2 /\ current_mode = "buddy"
    /\ mode_history[1].to = "research" /\ mode_history[2].from = "research"
    /\ lastCall = "exec_tool" /\ lastResult = <<"MODE_SWITCH", ":", "buddy", ":">>

\* a sentinel naming an unknown mode was fed through and changed nothing
C36_UnknownSeen ==
    /\ lastCall = "exec_tool" /\ lastResult = <<"MODE_SWITCH", ":", "turbo", ":">>
    /\ mode_history = <<>>

\* C37: the transcript never holds two consecutive messages with the same role;
\* the roles alternate user, assistant, user, ... from the first message, also
\* after a chat() that ended with an error of the completion service.
C37_RolesAlternate ==
    /\ conversation # <<>> => conversation[1].role = "user"
    /\ \A i \in 1 .. Len(conversation) - 1 : conversation[i].role # conversation[i + 1].role

\* C38: message_count equals the length of the current message list at every
\* point, and the message_count written in every temp snapshot and every
\* permanent record equals the number of messages in that same file.
C38_CountsAgree ==
    /\ message_count = Len(current_session_messages)
    /\ (tempFile.exists /\ tempFile.complete)
          => tempFile.message_count = Len(tempFile.messages)
    /\ \A sid \in SessionIds :
          (permFiles[sid].exists /\ permFiles[sid].complete)
             => permFiles[sid].message_count = Len(permFiles[sid].messages)

\* a second session is being snapshotted while the record of a first one exists
C38_Witness ==
    /\ lastCall = "auto_save_message" /\ message_count = 2
    /\ tempFile.exists /\ tempFile.complete /\ tempFile.message_count = 2
    /\ \E sid \in SessionIds :
          /\ permFiles[sid].exists /\ permFiles[sid].complete
          /\ permFiles[sid].message_count >= 1

\* C39: the VoiceController never has two Brain.chat() calls in progress at the
\* same time, for any interleaving of wake events, transcription outcomes and
\* text input from the menu.
C39_OneChatAtATime == ChatsInProgress <= 1

\* C40: after every wake event the controller accepts, the processing flag
\* eventually returns to False, whatever the outcome of the transcription, so
\* that a later wake event is accepted again.
C40_FlagReturns == (lastCall = "wake_accepted") ~> ~is_processing

=============================================================================
